---- MODULE Spec2Model ----
(***************************************************************************)
(* A model of the Qubes OS initial-setup add-on for anaconda:              *)
(*   - the D-Bus service QubesInitialSetup and install_with_tasks          *)
(*     (service/qubes.py),                                                 *)
(*   - the provisioning tasks and run_command (service/tasks.py),          *)
(*   - the legacy do_setup sequence (ks/qubes.py),                         *)
(*   - the kickstart block of QubesData (service/kickstart.py),            *)
(*   - the spoke's apply() and refresh() (gui/spokes/qubes_os.py),         *)
(*   - the detection of the default thin pool, get_default_tpool           *)
(*     (utils.py).                                                         *)
(*                                                                         *)
(* Python values are modelled as follows.  A command is the tuple of its   *)
(* argv strings.  A salt state of ConfigureDefaultQubesTask is a record    *)
(* [pillar, name] standing for the string "pillar." + name when pillar is  *)
(* TRUE and for name otherwise.  Python's None is the string "None" where  *)
(* the code expects a string and the empty tuple where it expects a tuple. *)
(***************************************************************************)
EXTENDS Integers, Sequences, FiniteSets, TLC

VARIABLES
    \* ---- service/qubes.py: QubesInitialSetup
    env,        \* what __init__ detected on the machine (never changes)
    svc,        \* the properties of the service object
    writes,     \* number of property writes so far (bounded by MaxWrites)
    result,     \* outcome of the last install_with_tasks call
    \* ---- service/tasks.py: one task object being run
    task,       \* [cls, args]
    pc,         \* position inside run()
    idx,        \* loop index inside run()
    issued,     \* commands started so far, oldest first
    exc,        \* exception that left run(), "none" if none
    top,        \* salt top file: the set of enabled states
    tenv,       \* files and packages the task finds on the machine
    \* ---- ks/qubes.py: the legacy QubesData and its do_setup
    lenv,       \* what the legacy __init__ and do_setup find on the machine
    leg,        \* the settings of the legacy QubesData
    ran,        \* the steps of do_setup entered so far, oldest first
    errors,     \* do_setup's local list `errors`
    \* ---- service/kickstart.py: QubesData
    kd,         \* the attributes of the QubesData object
    klines,     \* number of handle_line calls so far (bounded by MaxLines)
    klast,      \* the last handle_line call: its line, outcome and the data before
    kout,       \* outcome of str(QubesData)
    kfresh,     \* a fresh QubesData fed with the lines of kout
    \* ---- gui/spokes/qubes_os.py: QubesOsSpoke (its service is env, svc)
    gui,        \* the widgets of the spoke
    clicks,     \* number of user actions so far (bounded by MaxClicks)
    \* ---- utils.py: get_default_tpool
    dm,         \* what dmsetup, sysfs and lvs report about the root volume
    tp          \* outcome of the get_default_tpool call

svcVars  == <<env, svc, writes, result>>
taskVars == <<task, pc, idx, issued, exc, top, tenv>>
legVars  == <<lenv, leg, ran, errors>>
ksVars   == <<kd, klines, klast, kout, kfresh>>
guiVars  == <<gui, clicks>>
tpVars   == <<dm, tp>>
vars     == <<env, svc, writes, result, task, pc, idx, issued, exc, top, tenv,
              lenv, leg, ran, errors, kd, klines, klast, kout, kfresh,
              gui, clicks, dm, tp>>

\* ------------------------------------------------------------------ bounds
MaxWrites == 2
\* handle_line calls on one QubesData
MaxLines == 2
\* clicks of the user on one spoke
MaxClicks == 2
\* longest name of a volume group or volume that get_default_tpool is given
MaxLen == 2

\* ------------------------------------------------------- generic helpers
Range(s) == {s[i] : i \in 1..Len(s)}

RECURSIVE Flatten(_)
Flatten(ss) == IF ss = <<>> THEN <<>> ELSE Head(ss) \o Flatten(Tail(ss))

\* Python's None where a string is expected, and where a tuple is expected
None == "None"
NoneTuple == <<>>
\* bool(x) of a string or None
truthy(x) == x \notin {None, ""}

\* the legacy QubesData is absent from the runs of the service and the tasks
NoLenv == [has_user |-> FALSE, available |-> {}, kernels |-> {},
           default_tpool |-> NoneTuple]
LegacyIdle ==
    /\ lenv = NoLenv /\ leg = <<>> /\ ran = <<>> /\ errors = <<>>

\* no kickstart data is handled in the runs of the service, the tasks and do_setup
NoKs == [called |-> FALSE]
KsIdle ==
    /\ kd = <<>> /\ klines = 0 /\ klast = NoKs /\ kout = NoKs /\ kfresh = NoKs

\* no spoke is constructed in the runs without a user interface
NoGui == [constructed |-> FALSE]
GuiIdle == gui = NoGui /\ clicks = 0

\* get_default_tpool not in use
TpoolIdle == dm = [dmsetup |-> "none"] /\ tp = [called |-> FALSE]

\* =========================================================================
\* service/qubes.py
\* =========================================================================

\* QubesInitialSetup.properties that hold a boolean and are writable
BoolProps ==
    {"system_vms", "disp_firewallvm_and_usbvm", "disp_netvm", "default_vms",
     "whonix_vms", "whonix_default", "usbvm", "usbvm_with_netvm", "skip",
     "allow_usb_mouse", "allow_usb_keyboard", "create_default_tpool"}

\* utils.templates_cache: the template packages found, with their versions
TemplateVersion(t) == CASE t = "fedora" -> "40"
                        [] t = "debian" -> "12"
                        [] t = "whonix-gw" -> "17"
                        [] t = "whonix-ws" -> "17"
                        [] OTHER -> None

\* utils.get_template_version(template): None when the package is absent
get_template_version(available, t) ==
    IF t \in available THEN TemplateVersion(t) ELSE None

\* utils.is_template_rpm_available(template)
is_template_rpm_available(available, t) == t \in available

\* The machines the service is constructed on.
AvailableSets == {{}, {"fedora", "debian"},
                  {"fedora", "debian", "whonix-gw", "whonix-ws"}}
\* Results of utils.get_default_tpool(): None or (vg, tpool, create)
DefaultTpoolResults ==
    {NoneTuple, <<"qubes_dom0", "vm-pool", TRUE>>, <<"qubes_dom0", "vm-pool", FALSE>>,
     <<"qubes_dom0", "pool00", FALSE>>}

Envs == [available : AvailableSets,
         usbvm_available : BOOLEAN,
         usb_keyboards_detected : BOOLEAN,
         default_tpool : DefaultTpoolResults]

\* QubesInitialSetup.__init__, lines 80-82
whonix_available(e) ==
    is_template_rpm_available(e.available, "whonix-gw")
    /\ is_template_rpm_available(e.available, "whonix-ws")

\* QubesInitialSetup.__init__
ServiceInit(e) ==
        [system_vms |-> TRUE,
         disp_firewallvm_and_usbvm |-> TRUE,
         disp_netvm |-> FALSE,
         default_vms |-> TRUE,
         whonix_vms |-> whonix_available(e),
         whonix_default |-> FALSE,
         usbvm |-> e.usbvm_available,
         usbvm_with_netvm |-> FALSE,
         allow_usb_mouse |-> FALSE,
         allow_usb_keyboard |-> e.usb_keyboards_detected,
         lvm_setup |-> (e.default_tpool # NoneTuple),
         create_default_tpool |->
             IF e.default_tpool # NoneTuple THEN e.default_tpool[3] ELSE TRUE,
         vg_tpool |->
             IF e.default_tpool # NoneTuple
             THEN <<e.default_tpool[1], e.default_tpool[2]>>
             ELSE <<"", "">>,
         skip |-> FALSE,
         default_template |-> None,
         templates_to_install |-> <<"fedora", "debian", "whonix-gw", "whonix-ws">>]

\* ---- the constructors of service/tasks.py
\* The parameters each __init__ requires (none has a default value).
InitParams(cls) ==
    CASE cls = "DefaultPoolTask" -> {"create_default_tpool", "vg_tpool"}
      [] cls = "InstallTemplateTask" -> {"template"}
      [] cls = "SetDefaultTemplateTask" -> {"default_template"}
      [] cls = "ConfigureDefaultQubesTask" ->
            {"system_vms", "usbvm", "usbvm_with_netvm",
             "disp_firewallvm_and_usbvm", "allow_usb_keyboard",
             "allow_usb_mouse", "whonix_default", "whonix_vms", "default_vms",
             "disp_netvm", "disp_preload"}
      [] cls = "CreateDefaultDVMTask" -> {"default_template"}
      [] cls = "ConfigureNetworkTask" ->
            {"whonix_default", "start_usb", "start_whonix"}
      [] OTHER -> {}

\* A call cls(**kwargs): Python raises TypeError unless every required
\* parameter is given and no unknown one is.
CallOk(call) == DOMAIN call.kwargs = InitParams(call.cls)
NewTask(call) == [cls |-> call.cls, args |-> call.kwargs]

\* any(x.isdigit() for x in template), on the template names of the model
any_isdigit(template) == template \in {"fedora-40", "debian-12"}

\* "%s-%s" % (template, version), on the template names of the model
name_dash_version(template, version) ==
    CASE template = "fedora" /\ version = "40" -> "fedora-40"
      [] template = "debian" /\ version = "12" -> "debian-12"
      [] template = "whonix-gw" /\ version = "17" -> "whonix-gw-17"
      [] template = "whonix-ws" /\ version = "17" -> "whonix-ws-17"
      [] OTHER -> "other"

\* install_with_tasks, lines 209-224: the default template with its version
resolve_default_template(s, e) ==
    IF truthy(s.default_template) /\ ~any_isdigit(s.default_template)
    THEN LET template_version ==
                 get_template_version(e.available, s.default_template)
         IN  IF template_version # None
             THEN name_dash_version(s.default_template, template_version)
             ELSE None
    ELSE s.default_template

\* install_with_tasks, lines 226-261: the constructor calls in program order
TaskCalls(s, whonix_vms, default_template) ==
    <<[cls |-> "DefaultKernelTask", kwargs |-> <<>>]>>
    \o (IF s.lvm_setup
        THEN <<[cls |-> "DefaultPoolTask",
                kwargs |-> [create_default_tpool |-> s.create_default_tpool,
                            vg_tpool |-> s.vg_tpool]]>>
        ELSE <<>>)
    \o [i \in 1..Len(s.templates_to_install) |->
            [cls |-> "InstallTemplateTask",
             kwargs |-> [template |-> s.templates_to_install[i]]]]
    \o <<[cls |-> "CleanTemplatePkgsTask", kwargs |-> <<>>],
         [cls |-> "ConfigureDom0Task", kwargs |-> <<>>]>>
    \o (IF truthy(default_template)
        THEN <<[cls |-> "SetDefaultTemplateTask",
                kwargs |-> [default_template |-> default_template]]>>
        ELSE <<>>)
    \o <<[cls |-> "ConfigureDefaultQubesTask",
          kwargs |-> [system_vms |-> s.system_vms,
                      usbvm |-> s.usbvm,
                      usbvm_with_netvm |-> s.usbvm_with_netvm,
                      disp_firewallvm_and_usbvm |-> s.disp_firewallvm_and_usbvm,
                      allow_usb_keyboard |-> s.allow_usb_keyboard,
                      allow_usb_mouse |-> s.allow_usb_mouse,
                      whonix_default |-> s.whonix_default,
                      whonix_vms |-> whonix_vms,
                      default_vms |-> s.default_vms,
                      disp_netvm |-> s.disp_netvm]]>>
    \o (IF truthy(default_template)
        THEN <<[cls |-> "CreateDefaultDVMTask",
                kwargs |-> [default_template |-> default_template]]>>
        ELSE <<>>)
    \o <<[cls |-> "ConfigureNetworkTask",
          kwargs |-> [whonix_default |-> s.whonix_default,
                      start_usb |-> (s.usbvm /\ ~s.usbvm_with_netvm)]]>>

\* a variant of the skip test that never returns early
SkipReturnsEarly_never(s) == FALSE

\* install_with_tasks, lines 206-207
SkipReturnsEarly(s) == s.skip

\* a variant that keeps whonix_vms as it was set
reset_whonix_vms_never(s, e) == s.whonix_vms

\* install_with_tasks, lines 202-204: the value whonix_vms has afterwards
reset_whonix_vms(s, e) ==
    IF s.whonix_vms /\ ~whonix_available(e) THEN FALSE ELSE s.whonix_vms

\* QubesInitialSetup.install_with_tasks: what it returns or raises, the
\* value it leaves in whonix_vms, and the constructor calls it made (up to
\* and including the first one that raised)
install_with_tasks(s, e) ==
    LET whonix_vms == reset_whonix_vms(s, e)
        calls == TaskCalls(s, whonix_vms, resolve_default_template(s, e))
        bad == {i \in 1..Len(calls) : ~CallOk(calls[i])}
        first_bad == CHOOSE i \in bad : \A j \in bad : i <= j
    IN  IF SkipReturnsEarly(s)
        THEN [raised |-> "none", tasks |-> <<>>, whonix_vms |-> whonix_vms,
              calls |-> <<>>]
        ELSE IF bad # {}
        THEN [raised |-> "TypeError", tasks |-> <<>>, whonix_vms |-> whonix_vms,
              calls |-> SubSeq(calls, 1, first_bad)]
        ELSE [raised |-> "none",
              tasks |-> [i \in 1..Len(calls) |-> NewTask(calls[i])],
              whonix_vms |-> whonix_vms,
              calls |-> calls]

NotCalled == [called |-> FALSE, raised |-> "none", tasks |-> <<>>,
              skip |-> FALSE, settings |-> <<>>, calls |-> <<>>,
              whonix_vms |-> FALSE]

\* ---- actions of the service
\* QubesInitialSetup.__setattr__ through the D-Bus setters of
\* qubes_interface.py, for a boolean property
SetBoolProperty ==
    \E attr \in BoolProps, value \in BOOLEAN :
        /\ writes < MaxWrites
        /\ svc' = [svc EXCEPT ![attr] = value]
        /\ writes' = writes + 1
        /\ UNCHANGED <<env, result>>

VgTpoolValues == {<<"", "">>, <<"qubes_dom0", "vm-pool">>, <<"vg1", "pool00">>}
SetVgTpool ==
    \E value \in VgTpoolValues :
        /\ writes < MaxWrites
        /\ svc' = [svc EXCEPT !.vg_tpool = value]
        /\ writes' = writes + 1
        /\ UNCHANGED <<env, result>>

TemplateLists == {<<>>, <<"fedora">>, <<"debian", "fedora">>,
                  <<"fedora", "debian", "whonix-gw", "whonix-ws">>}
SetTemplatesToInstall ==
    \E value \in TemplateLists :
        /\ writes < MaxWrites
        /\ svc' = [svc EXCEPT !.templates_to_install = value]
        /\ writes' = writes + 1
        /\ UNCHANGED <<env, result>>

DefaultTemplates == {None, "fedora", "debian-12", "gentoo"}
SetDefaultTemplate ==
    \E value \in DefaultTemplates :
        /\ writes < MaxWrites
        /\ svc' = [svc EXCEPT !.default_template = value]
        /\ writes' = writes + 1
        /\ UNCHANGED <<env, result>>

InstallWithTasks ==
    LET r == install_with_tasks(svc, env)
    IN  /\ svc' = [svc EXCEPT !.whonix_vms = r.whonix_vms]
        /\ result' = [called |-> TRUE, raised |-> r.raised, tasks |-> r.tasks,
                      skip |-> svc.skip, settings |-> svc, calls |-> r.calls,
                      whonix_vms |-> svc'.whonix_vms]
        /\ UNCHANGED <<env, writes>>

\* =========================================================================
\* service/tasks.py
\* =========================================================================
NoTask == [cls |-> "none", args |-> <<>>]
NoTenv == [kernels |-> {}, available |-> {}, pkgdir |-> FALSE]
TaskIdle ==
    /\ task = NoTask /\ pc = "idle" /\ idx = 0 /\ issued = <<>>
    /\ exc = "none" /\ top = {} /\ tenv = NoTenv

\* ---- BaseQubesTask.run_command
\* How a started program can end: exit status 0, a non-zero exit status, or
\* an exception out of startProgram/communicate (the program cannot be
\* started).  A command with None in its argv cannot be started.
ReturnCodes(command) ==
    IF None \in Range(command) THEN {"exception"}
    ELSE {"ok", "nonzero", "exception"}

\* a variant of run_command that treats every exit status as success
process_error_exit_status_ignored(rc, ignore_failure) == rc = "exception"

\* run_command, lines 54-62: whether process_error is set
process_error(rc, ignore_failure) ==
    \/ rc = "exception"
    \/ (~ignore_failure /\ rc = "nonzero")

\* what `qubesctl top.enable` and `qubesctl top.disable` do to the salt top
\* file when they succeed (the external tool, as the task relies on it)
salt_effect(t, command, rc) ==
    IF rc = "ok" /\ Len(command) >= 3 /\ command[1] = "qubesctl"
    THEN IF command[2] = "top.enable" THEN t \cup {command[3]}
         ELSE IF command[2] = "top.disable" THEN t \ {command[3]}
         ELSE t
    ELSE t

Issue(command, via, ignore_failure, rc) ==
    [cmd |-> command, via |-> via, ignore_failure |-> ignore_failure, rc |-> rc]

\* a variant of the except clause that re-raises what it caught
except_clause_reraise(raised) == raised

\* ConfigureDefaultQubesTask.run, lines 290-299: the except clause replaces
\* whatever was raised inside the try block
except_clause(raised) == "ConfigurationFailed"

\* One call self.run_command(command, ignore_failure=...), made at a place
\* of run() that continues at (ok_pc, ok_idx); in_try tells whether the call
\* is inside the try block of ConfigureDefaultQubesTask.run.
run_command(command, ignore_failure, in_try, ok_pc, ok_idx) ==
    \E rc \in ReturnCodes(command) :
        /\ issued' = Append(issued, Issue(command, "run_command", ignore_failure, rc))
        /\ top' = salt_effect(top, command, rc)
        /\ IF process_error(rc, ignore_failure)
           THEN /\ pc' = "raised"
                /\ idx' = idx
                /\ exc' = IF in_try THEN except_clause("ProcessError")
                          ELSE "ProcessError"
           ELSE /\ pc' = ok_pc
                /\ idx' = ok_idx
                /\ exc' = exc
        /\ UNCHANGED <<task, tenv>>

\* ---- the commands of the straight-line run() methods, in program order
Cmd(command, ignore_failure, in_try) ==
    [cmd |-> command, ignore_failure |-> ignore_failure, in_try |-> in_try]

\* LooseVersion order of the kernel directory names of the model
LooseRank(k) == CASE k = "5.15" -> 1 [] k = "6.1" -> 2 [] OTHER -> 0
NewestKernel(kernels) ==
    CHOOSE k \in kernels : \A o \in kernels : LooseRank(o) <= LooseRank(k)

DefaultKernelTask_run(e) ==
    <<Cmd(<<"/usr/bin/qubes-prefs", "default-kernel", NewestKernel(e.kernels)>>,
          FALSE, FALSE)>>

\* utils.get_template_rpm: the package file, None when it is absent
get_template_rpm(available, template) ==
    IF template \in available THEN "qubes-template.rpm" ELSE None

InstallTemplateTask_run(a, e) ==
    <<Cmd(<<"/usr/bin/qvm-template", "install", "--nogpgcheck",
            get_template_rpm(e.available, a.template)>>, FALSE, FALSE)>>

Dom0Services == <<"rdisc", "kdump", "libvirt-guests", "salt-minion">>
ConfigureDom0Task_run ==
    Flatten([i \in 1..Len(Dom0Services) |->
        <<Cmd(<<"systemctl", "disable", Dom0Services[i]>>, TRUE, FALSE),
          Cmd(<<"systemctl", "stop", Dom0Services[i]>>, TRUE, FALSE)>>])

SetDefaultTemplateTask_run(a) ==
    IF truthy(a.default_template)
    THEN <<Cmd(<<"/usr/bin/qubes-prefs", "default-template", a.default_template>>,
               FALSE, FALSE)>>
    ELSE <<>>

CreateDefaultDVMTask_run(a) ==
    IF truthy(a.default_template)
    THEN <<Cmd(<<"/usr/bin/qubes-prefs", "default-dispvm", "default-dvm">>,
               FALSE, FALSE)>>
    ELSE <<>>

ConfigureNetworkTask_run(a) ==
    LET default_netvm == "sys-firewall"
        updatevm == IF a.whonix_default THEN "sys-whonix" ELSE default_netvm
    IN  <<Cmd(<<"/usr/bin/qvm-prefs", "sys-firewall", "netvm", "sys-net">>, FALSE, FALSE),
          Cmd(<<"/usr/bin/qubes-prefs", "default-netvm", default_netvm>>, FALSE, FALSE),
          Cmd(<<"/usr/bin/qubes-prefs", "updatevm", updatevm>>, FALSE, FALSE),
          Cmd(<<"/usr/bin/qubes-prefs", "clockvm", "sys-net">>, FALSE, FALSE),
          Cmd(<<"/usr/bin/qvm-start", default_netvm>>, FALSE, FALSE)>>
        \o (IF a.start_usb
            THEN <<Cmd(<<"systemctl", "start", "qubes-vm@sys-usb.service">>, FALSE, FALSE)>>
            ELSE <<>>)
        \o (IF a.start_whonix
            THEN <<Cmd(<<"systemctl", "start", "qubes-vm@sys-whonix.service">>, FALSE, FALSE)>>
            ELSE <<>>)

\* ---- ConfigureDefaultQubesTask.run
S(name) == [pillar |-> FALSE, name |-> name]     \* the string name
P(name) == [pillar |-> TRUE, name |-> name]      \* the string "pillar." + name
startswith_pillar(state) == state.pillar         \* state.startswith("pillar.")
strip_pillar(state) == state.name                \* state[len("pillar."):]

\* lines 237-261
ConfigureDefaultQubesTask_states(a) ==
    (IF a.system_vms
     THEN <<S("qvm.sys-net"), S("qvm.sys-firewall"), S("qvm.default-dispvm")>>
     ELSE <<>>)
    \o (IF a.disp_firewallvm_and_usbvm
        THEN <<P("qvm.disposable-sys-firewall"), P("qvm.disposable-sys-usb")>>
        ELSE <<>>)
    \o (IF a.disp_netvm THEN <<P("qvm.disposable-sys-net")>> ELSE <<>>)
    \o (IF a.disp_preload THEN <<P("qvm.disposable-preload")>> ELSE <<>>)
    \o (IF a.default_vms
        THEN <<S("qvm.personal"), S("qvm.work"), S("qvm.untrusted"), S("qvm.vault")>>
        ELSE <<>>)
    \o (IF a.whonix_vms THEN <<S("qvm.sys-whonix"), S("qvm.anon-whonix")>> ELSE <<>>)
    \o (IF a.whonix_default THEN <<S("qvm.updates-via-whonix")>> ELSE <<>>)
    \o (IF a.usbvm THEN <<S("qvm.sys-usb")>> ELSE <<>>)
    \o (IF a.usbvm_with_netvm THEN <<P("qvm.sys-net-as-usbvm")>> ELSE <<>>)
    \o (IF a.allow_usb_mouse THEN <<P("qvm.sys-usb-allow-mouse")>> ELSE <<>>)
    \o (IF a.allow_usb_keyboard THEN <<P("qvm.usb-keyboard")>> ELSE <<>>)

\* a variant that enables a pillar state like any other state
top_enable_by_name(state) == <<"qubesctl", "top.enable", state.name>>

\* lines 273-280: the top.enable command of one state
top_enable(state) ==
    IF startswith_pillar(state)
    THEN <<"qubesctl", "top.enable", strip_pillar(state), "pillar=True">>
    ELSE <<"qubesctl", "top.enable", state.name>>

\* a variant that disables every state, the pillar ones included
states_to_disable_all(states) == states

\* lines 287-289: the states that are disabled after the highstate
states_to_disable(states) ==
    SelectSeq(states, LAMBDA state : ~startswith_pillar(state))

Highstate == <<"qubesctl", "--all", "state.highstate">>

\* lines 270-289
ConfigureDefaultQubesTask_run(a) ==
    LET states == ConfigureDefaultQubesTask_states(a)
        disable == states_to_disable(states)
    IN  <<Cmd(<<"qubesctl", "saltutil.clear_cache">>, FALSE, FALSE),
          Cmd(<<"qubesctl", "saltutil.sync_all">>, FALSE, FALSE)>>
        \o [i \in 1..Len(states) |-> Cmd(top_enable(states[i]), FALSE, FALSE)]
        \o <<Cmd(Highstate, FALSE, TRUE)>>
        \o [i \in 1..Len(disable) |->
                Cmd(<<"qubesctl", "top.disable", disable[i].name>>, FALSE, TRUE)]

\* The run_command calls of run(), for every task but DefaultPoolTask (whose
\* run() branches on the exit status of a program it starts itself).
Script(t, e) ==
    CASE t.cls = "DefaultKernelTask" -> DefaultKernelTask_run(e)
      [] t.cls = "InstallTemplateTask" -> InstallTemplateTask_run(t.args, e)
      [] t.cls = "ConfigureDom0Task" -> ConfigureDom0Task_run
      [] t.cls = "SetDefaultTemplateTask" -> SetDefaultTemplateTask_run(t.args)
      [] t.cls = "ConfigureDefaultQubesTask" -> ConfigureDefaultQubesTask_run(t.args)
      [] t.cls = "CreateDefaultDVMTask" -> CreateDefaultDVMTask_run(t.args)
      [] t.cls = "ConfigureNetworkTask" -> ConfigureNetworkTask_run(t.args)
      [] OTHER -> <<>>

\* ---- actions: run() of the task, one step per started program
\* DefaultKernelTask.run, lines 75-79: sorted(...)[-1] of an empty list
KernelListEmpty ==
    /\ pc = "start" /\ task.cls = "DefaultKernelTask" /\ tenv.kernels = {}
    /\ pc' = "raised" /\ exc' = "IndexError"
    /\ UNCHANGED <<task, idx, issued, top, tenv>>

\* CleanTemplatePkgsTask.run
CleanTemplatePkgs ==
    /\ pc = "start" /\ task.cls = "CleanTemplatePkgsTask"
    /\ tenv' = [tenv EXCEPT !.pkgdir = FALSE]
    /\ pc' = "done"
    /\ UNCHANGED <<task, idx, issued, exc, top>>

\* run() of a straight-line task reaches its first run_command call
BeginRun ==
    /\ pc = "start"
    /\ task.cls \notin {"DefaultPoolTask", "CleanTemplatePkgsTask"}
    /\ task.cls = "DefaultKernelTask" => tenv.kernels # {}
    /\ pc' = "run" /\ idx' = 1
    /\ UNCHANGED <<task, issued, exc, top, tenv>>

\* the next run_command call of a straight-line run()
RunCommand ==
    /\ pc = "run"
    /\ idx <= Len(Script(task, tenv))
    /\ LET c == Script(task, tenv)[idx]
       IN  run_command(c.cmd, c.ignore_failure, c.in_try, "run", idx + 1)

\* run() returns
RunReturns ==
    /\ pc = "run"
    /\ idx = Len(Script(task, tenv)) + 1
    /\ pc' = "done"
    /\ UNCHANGED <<task, idx, issued, exc, top, tenv>>

\* ---- DefaultPoolTask.run
\* lines 105-113: volume_group, thin_pool = self.vg_tpool and the command
lvcreate(vg_tpool) ==
    <<"/usr/sbin/lvcreate", "-l", "90%FREE", "--thinpool",
      vg_tpool[2], vg_tpool[1]>>

\* lines 100-114
PoolCreate ==
    /\ pc = "start" /\ task.cls = "DefaultPoolTask"
    /\ IF task.args.create_default_tpool
       THEN IF task.args.vg_tpool = NoneTuple
            THEN /\ pc' = "raised" /\ exc' = "CannotFindVolumeGroup"
                 /\ UNCHANGED <<task, idx, issued, top, tenv>>
            ELSE run_command(lvcreate(task.args.vg_tpool),
                             FALSE, FALSE, "pool_info", idx)
       ELSE /\ pc' = "pool_info"
            /\ UNCHANGED <<task, idx, issued, exc, top, tenv>>

\* a variant that registers the pool whatever qvm-pool info reported
returncode_nonzero_always(rc) == TRUE

\* line 127: cmd.returncode != 0
returncode_nonzero(rc) == rc = "nonzero"

\* lines 115-127: qvm-pool info is started with util.startProgram, not with
\* run_command; its exit status selects the branch and an exception out of
\* startProgram leaves run()
PoolInfo ==
    /\ pc = "pool_info" /\ task.args.vg_tpool # NoneTuple
    /\ \E rc \in {"ok", "nonzero", "exception"} :
        /\ issued' = Append(issued,
               Issue(<<"qvm-pool", "info", task.args.vg_tpool[2]>>,
                     "startProgram", TRUE, rc))
        /\ IF rc = "exception"
           THEN pc' = "raised" /\ exc' = "OSError"
           ELSE pc' = (IF returncode_nonzero(rc) THEN "pool_add" ELSE "default_pool")
                /\ exc' = exc
    /\ UNCHANGED <<task, idx, top, tenv>>

\* line 115, vg_tpool falsy: nothing to do
PoolNone ==
    /\ pc = "pool_info" /\ task.args.vg_tpool = NoneTuple
    /\ pc' = "done"
    /\ UNCHANGED <<task, idx, issued, exc, top, tenv>>

\* lines 128-140
PoolAdd ==
    /\ pc = "pool_add"
    /\ run_command(<<"/usr/bin/qvm-pool", "--add", task.args.vg_tpool[2], "lvm_thin",
                     "-o", task.args.vg_tpool[1], task.args.vg_tpool[2]>>,
                   FALSE, FALSE, "default_pool", idx)

\* line 141
PoolSetDefault ==
    /\ pc = "default_pool"
    /\ run_command(<<"/usr/bin/qubes-prefs", "default-pool", task.args.vg_tpool[2]>>,
                   FALSE, FALSE, "done", idx)

\* ---- the task objects that can be constructed, and the machines they run on
Kernels == {{}, {"5.15"}, {"5.15", "6.1"}}
PoolArgs == [create_default_tpool : BOOLEAN,
             vg_tpool : {NoneTuple, <<"qubes_dom0", "vm-pool">>, <<"vg1", "pool00">>}]
Tasks ==
    {[cls |-> "DefaultKernelTask", args |-> <<>>],
     [cls |-> "CleanTemplatePkgsTask", args |-> <<>>],
     [cls |-> "ConfigureDom0Task", args |-> <<>>]}
    \cup {[cls |-> "DefaultPoolTask", args |-> a] : a \in PoolArgs}
    \cup {[cls |-> "InstallTemplateTask", args |-> [template |-> t]] :
            t \in {"fedora", "whonix-gw"}}
    \cup {[cls |-> "SetDefaultTemplateTask", args |-> [default_template |-> t]] :
            t \in {None, "fedora-40"}}
    \cup {[cls |-> "CreateDefaultDVMTask", args |-> [default_template |-> t]] :
            t \in {None, "fedora-40"}}
    \cup {[cls |-> "ConfigureNetworkTask", args |-> a] :
            a \in [InitParams("ConfigureNetworkTask") -> BOOLEAN]}
    \cup {[cls |-> "ConfigureDefaultQubesTask", args |-> a] :
            a \in [InitParams("ConfigureDefaultQubesTask") -> BOOLEAN]}

\* what a task reads from the machine; the tasks that read nothing run on
\* one machine only
TaskEnvs(t) ==
    CASE t.cls = "DefaultKernelTask" ->
            {[NoTenv EXCEPT !.kernels = k] : k \in Kernels}
      [] t.cls = "InstallTemplateTask" ->
            {[NoTenv EXCEPT !.available = v] : v \in {{}, {"fedora", "whonix-gw"}}}
      [] t.cls = "CleanTemplatePkgsTask" ->
            {[NoTenv EXCEPT !.pkgdir = d] : d \in BOOLEAN}
      [] OTHER -> {NoTenv}

\* =========================================================================
\* The service specification
\* =========================================================================
Init ==
    /\ env \in Envs
    /\ svc = ServiceInit(env)
    /\ writes = 0
    /\ result = NotCalled
    /\ TaskIdle
    /\ LegacyIdle
    /\ KsIdle
    /\ GuiIdle
    /\ TpoolIdle

Next ==
    \/ (SetBoolProperty /\ UNCHANGED taskVars /\ UNCHANGED legVars /\ UNCHANGED ksVars /\ UNCHANGED guiVars /\ UNCHANGED tpVars)
    \/ (SetVgTpool /\ UNCHANGED taskVars /\ UNCHANGED legVars /\ UNCHANGED ksVars /\ UNCHANGED guiVars /\ UNCHANGED tpVars)
    \/ (SetTemplatesToInstall /\ UNCHANGED taskVars /\ UNCHANGED legVars /\ UNCHANGED ksVars /\ UNCHANGED guiVars /\ UNCHANGED tpVars)
    \/ (SetDefaultTemplate /\ UNCHANGED taskVars /\ UNCHANGED legVars /\ UNCHANGED ksVars /\ UNCHANGED guiVars /\ UNCHANGED tpVars)
    \/ (InstallWithTasks /\ UNCHANGED taskVars /\ UNCHANGED legVars /\ UNCHANGED ksVars /\ UNCHANGED guiVars /\ UNCHANGED tpVars)

Spec == Init /\ [][Next]_vars

\* =========================================================================
\* The task specification: any task object, run once
\* =========================================================================
ServiceIdle ==
    /\ env = [available |-> {}, usbvm_available |-> TRUE,
              usb_keyboards_detected |-> FALSE, default_tpool |-> NoneTuple]
    /\ svc = ServiceInit(env)
    /\ writes = 0
    /\ result = NotCalled

InitTask ==
    /\ ServiceIdle
    /\ task \in Tasks
    /\ tenv \in TaskEnvs(task)
    /\ pc = "start" /\ idx = 0 /\ issued = <<>> /\ exc = "none" /\ top = {}
    /\ LegacyIdle
    /\ KsIdle
    /\ GuiIdle
    /\ TpoolIdle

NextTask ==
    \/ (KernelListEmpty /\ UNCHANGED svcVars /\ UNCHANGED legVars /\ UNCHANGED ksVars /\ UNCHANGED guiVars /\ UNCHANGED tpVars)
    \/ (CleanTemplatePkgs /\ UNCHANGED svcVars /\ UNCHANGED legVars /\ UNCHANGED ksVars /\ UNCHANGED guiVars /\ UNCHANGED tpVars)
    \/ (BeginRun /\ UNCHANGED svcVars /\ UNCHANGED legVars /\ UNCHANGED ksVars /\ UNCHANGED guiVars /\ UNCHANGED tpVars)
    \/ (RunCommand /\ UNCHANGED svcVars /\ UNCHANGED legVars /\ UNCHANGED ksVars /\ UNCHANGED guiVars /\ UNCHANGED tpVars)
    \/ (RunReturns /\ UNCHANGED svcVars /\ UNCHANGED legVars /\ UNCHANGED ksVars /\ UNCHANGED guiVars /\ UNCHANGED tpVars)
    \/ (PoolCreate /\ UNCHANGED svcVars /\ UNCHANGED legVars /\ UNCHANGED ksVars /\ UNCHANGED guiVars /\ UNCHANGED tpVars)
    \/ (PoolInfo /\ UNCHANGED svcVars /\ UNCHANGED legVars /\ UNCHANGED ksVars /\ UNCHANGED guiVars /\ UNCHANGED tpVars)
    \/ (PoolNone /\ UNCHANGED svcVars /\ UNCHANGED legVars /\ UNCHANGED ksVars /\ UNCHANGED guiVars /\ UNCHANGED tpVars)
    \/ (PoolAdd /\ UNCHANGED svcVars /\ UNCHANGED legVars /\ UNCHANGED ksVars /\ UNCHANGED guiVars /\ UNCHANGED tpVars)
    \/ (PoolSetDefault /\ UNCHANGED svcVars /\ UNCHANGED legVars /\ UNCHANGED ksVars /\ UNCHANGED guiVars /\ UNCHANGED tpVars)

SpecTask == InitTask /\ [][NextTask]_vars

\* =========================================================================
\* ks/qubes.py: the legacy QubesData and do_setup
\* =========================================================================

\* QubesData.bool_options of ks/qubes.py
legacy_bool_options ==
    {"system_vms", "disp_firewallvm_and_usbvm", "disp_netvm", "default_vms",
     "whonix_vms", "whonix_default", "usbvm", "usbvm_with_netvm", "skip",
     "allow_usb_mouse", "allow_usb_keyboard"}

\* QubesData.__init__, lines 147-151 (the model's machines carry the
\* whonix-gw/whonix-ws packages or none)
legacy_whonix_available(e) ==
    "whonix-gw" \in e.available /\ "whonix-ws" \in e.available

\* QubesData.__init__, lines 153-165: the keys of templates_versions
templates_versions_key(template) ==
    IF template \in {"whonix-gw", "whonix-ws", "whonix-gateway", "whonix-workstation"}
    THEN "whonix" ELSE template
has_templates_version(e, key) ==
    \/ key = "fedora" /\ "fedora" \in e.available
    \/ key = "debian" /\ "debian" \in e.available
    \/ key = "whonix" /\ legacy_whonix_available(e)

\* QubesData.__init__ of ks/qubes.py
LegacyInit(e) ==
    [system_vms |-> TRUE,
     disp_firewallvm_and_usbvm |-> TRUE,
     disp_netvm |-> FALSE,
     default_vms |-> TRUE,
     whonix_vms |-> legacy_whonix_available(e),
     whonix_default |-> FALSE,
     usbvm |-> e.usbvm_available,
     usbvm_with_netvm |-> FALSE,
     allow_usb_mouse |-> FALSE,
     allow_usb_keyboard |-> e.usb_keyboards_detected,
     vg_tpool |-> e.default_tpool,
     skip |-> FALSE,
     default_template |-> None,
     templates_to_install |->
         <<"fedora", "debian">>
         \o (IF "whonix-gw" \in e.available
             THEN <<"whonix-gw", "whonix-ws">>
             ELSE <<"whonix-gateway", "whonix-workstation">>)]

\* ---- the steps of do_setup, lines 350-366, in program order
Steps(l) ==
    <<"configure_default_kernel", "configure_default_pool", "install_templates",
      "configure_dom0", "configure_default_template", "configure_qubes">>
    \o (IF l.system_vms THEN <<"configure_network">> ELSE <<>>)
    \o (IF l.usbvm /\ ~l.usbvm_with_netvm THEN <<"start_sys_usb">> ELSE <<>>)
    \o (IF l.whonix_vms THEN <<"start_sys_whonix">> ELSE <<>>)
    \o <<"configure_default_dvm">>

\* a variant of do_setup that wraps every step in the try block
caught_by_do_setup_any(step) == TRUE

\* do_setup, lines 365-368: the only step inside a try block
caught_by_do_setup(step) == step = "configure_default_dvm"

\* one statement of a step: a run_command call, a program started with
\* startProgram, or a Python expression that raises
LCmd(command, ignore_failure, in_try) ==
    [kind |-> "run_command", cmd |-> command, ignore_failure |-> ignore_failure,
     in_try |-> in_try, exc |-> "none"]
LStart(command) ==
    [kind |-> "startProgram", cmd |-> command, ignore_failure |-> TRUE,
     in_try |-> FALSE, exc |-> "none"]
LRaise(e) ==
    [kind |-> "raise", cmd |-> <<>>, ignore_failure |-> FALSE,
     in_try |-> FALSE, exc |-> e]

\* configure_default_kernel, lines 405-412
configure_default_kernel(e) ==
    IF e.kernels = {}
    THEN <<LRaise("IndexError")>>
    ELSE <<LCmd(<<"/usr/bin/qubes-prefs", "default-kernel", NewestKernel(e.kernels)>>,
                FALSE, FALSE)>>

\* configure_default_pool, lines 414-436; info_rc is the exit status of
\* `qvm-pool info` once it has run ("none" before)
configure_default_pool(l, info_rc) ==
    IF l.vg_tpool # NoneTuple
    THEN <<LStart(<<"qvm-pool", "info", l.vg_tpool[2]>>)>>
         \o (IF info_rc = "nonzero"
             THEN <<LCmd(<<"/usr/bin/qvm-pool", "--add", l.vg_tpool[2], "lvm_thin",
                           "-o", l.vg_tpool[1], l.vg_tpool[2]>>, FALSE, FALSE)>>
             ELSE <<>>)
         \o <<LCmd(<<"/usr/bin/qubes-prefs", "default-pool", l.vg_tpool[2]>>,
                   FALSE, FALSE)>>
    ELSE <<>>

\* install_templates, lines 438-451: templates_versions[...] raises KeyError
\* for a template whose package is absent
RECURSIVE install_templates(_, _)
install_templates(templates, e) ==
    IF templates = <<>> THEN <<>>
    ELSE IF ~has_templates_version(e, templates_versions_key(Head(templates)))
    THEN <<LRaise("KeyError")>>
    ELSE <<LCmd(<<"/usr/bin/qvm-template", "install", "--nogpgcheck",
                  get_template_rpm(e.available, Head(templates))>>, FALSE, FALSE)>>
         \o install_templates(Tail(templates), e)

\* configure_dom0, lines 453-458
configure_dom0 ==
    Flatten([i \in 1..Len(Dom0Services) |->
        <<LCmd(<<"systemctl", "disable", Dom0Services[i]>>, TRUE, FALSE),
          LCmd(<<"systemctl", "stop", Dom0Services[i]>>, TRUE, FALSE)>>])

\* configure_default_template, line 463: the template with its version, or
\* KeyError; versioned tells whether line 463 has already run
configure_default_template(l, e, versioned) ==
    IF ~truthy(l.default_template) THEN <<>>
    ELSE IF versioned
    THEN <<LCmd(<<"/usr/bin/qubes-prefs", "default-template", l.default_template>>,
                FALSE, FALSE)>>
    ELSE <<LRaise("KeyError")>>

\* configure_qubes, lines 469-494
configure_qubes_states(l, e) ==
    (IF l.system_vms
     THEN <<S("qvm.sys-net"), S("qvm.sys-firewall"), S("qvm.default-dispvm")>>
     ELSE <<>>)
    \o (IF l.disp_firewallvm_and_usbvm
        THEN <<P("qvm.disposable-sys-firewall"), P("qvm.disposable-sys-usb")>>
        ELSE <<>>)
    \o (IF l.disp_netvm THEN <<P("qvm.disposable-sys-net")>> ELSE <<>>)
    \o (IF l.default_vms
        THEN <<S("qvm.personal"), S("qvm.work"), S("qvm.untrusted"), S("qvm.vault")>>
        ELSE <<>>)
    \o (IF legacy_whonix_available(e) /\ l.whonix_vms
        THEN <<S("qvm.sys-whonix"), S("qvm.anon-whonix")>> ELSE <<>>)
    \o (IF l.whonix_default THEN <<S("qvm.updates-via-whonix")>> ELSE <<>>)
    \o (IF l.usbvm THEN <<S("qvm.sys-usb")>> ELSE <<>>)
    \o (IF l.usbvm_with_netvm THEN <<P("qvm.sys-net-as-usbvm")>> ELSE <<>>)
    \o (IF l.allow_usb_mouse THEN <<P("qvm.sys-usb-allow-mouse")>> ELSE <<>>)
    \o (IF l.allow_usb_keyboard THEN <<P("qvm.usb-keyboard")>> ELSE <<>>)

\* configure_qubes, lines 502-521
configure_qubes(l, e) ==
    LET states == configure_qubes_states(l, e)
        disable == SelectSeq(states, LAMBDA state : ~startswith_pillar(state))
    IN  <<LCmd(<<"qubesctl", "saltutil.clear_cache">>, FALSE, FALSE),
          LCmd(<<"qubesctl", "saltutil.sync_all">>, FALSE, FALSE)>>
        \o [i \in 1..Len(states) |-> LCmd(top_enable(states[i]), FALSE, FALSE)]
        \o <<LCmd(Highstate, FALSE, TRUE)>>
        \o [i \in 1..Len(disable) |->
                LCmd(<<"qubesctl", "top.disable", disable[i].name>>, FALSE, TRUE)]

\* configure_network, lines 538-550
configure_network(l) ==
    LET default_netvm == "sys-firewall"
        updatevm == IF l.whonix_default THEN "sys-whonix" ELSE default_netvm
    IN  <<LCmd(<<"/usr/bin/qvm-prefs", "sys-firewall", "netvm", "sys-net">>, FALSE, FALSE),
          LCmd(<<"/usr/bin/qubes-prefs", "default-netvm", default_netvm>>, FALSE, FALSE),
          LCmd(<<"/usr/bin/qubes-prefs", "updatevm", updatevm>>, FALSE, FALSE),
          LCmd(<<"/usr/bin/qubes-prefs", "clockvm", "sys-net">>, FALSE, FALSE),
          LCmd(<<"/usr/bin/qvm-start", default_netvm>>, FALSE, FALSE)>>

\* self.default_template + '-dvm', on the template names of the model
name_dash_dvm(template) ==
    CASE template = "fedora-40" -> "fedora-40-dvm"
      [] template = "debian-12" -> "debian-12-dvm"
      [] OTHER -> "other-dvm"

\* configure_default_dvm, lines 530-536
configure_default_dvm(l) ==
    IF truthy(l.default_template)
    THEN <<LCmd(<<"/usr/bin/qubes-prefs", "default-dispvm",
                  name_dash_dvm(l.default_template)>>, FALSE, FALSE)>>
    ELSE <<>>

\* the exit status of the `qvm-pool info` of the current run, "none" before
PoolInfoRc(iss) ==
    IF \E k \in 1..Len(iss) : iss[k].via = "startProgram"
    THEN iss[CHOOSE k \in 1..Len(iss) : iss[k].via = "startProgram"].rc
    ELSE "none"

\* the statements of one step, for the settings and the machine
StepScript(step, l, e, iss, versioned) ==
    CASE step = "configure_default_kernel" -> configure_default_kernel(e)
      [] step = "configure_default_pool" -> configure_default_pool(l, PoolInfoRc(iss))
      [] step = "install_templates" -> install_templates(l.templates_to_install, e)
      [] step = "configure_dom0" -> configure_dom0
      [] step = "configure_default_template" ->
            configure_default_template(l, e, versioned)
      [] step = "configure_qubes" -> configure_qubes(l, e)
      [] step = "configure_network" -> configure_network(l)
      [] step = "start_sys_usb" ->
            <<LCmd(<<"systemctl", "start", "qubes-vm@sys-usb.service">>, FALSE, FALSE)>>
      [] step = "start_sys_whonix" ->
            <<LCmd(<<"systemctl", "start", "qubes-vm@sys-whonix.service">>, FALSE, FALSE)>>
      [] step = "configure_default_dvm" -> configure_default_dvm(l)
      [] OTHER -> <<>>

\* run_command of ks/qubes.py, lines 393-401: whether process_error is set
legacy_process_error(rc, ignore_failure) ==
    \/ rc = "exception"
    \/ (~ignore_failure /\ rc = "nonzero")

\* what do_setup can tell of a finished program: run_command with
\* ignore_failure never looks at the exit status (line 393)
observed_rc(kind, ignore_failure, rc) ==
    IF kind = "run_command" /\ ignore_failure /\ rc # "exception"
    THEN "ignored" ELSE rc

\* ---- actions
\* handle_line of ks/qubes.py, lines 278-283: a boolean option is assigned
LegacySetBool ==
    \E param \in legacy_bool_options, bool_value \in BOOLEAN :
        /\ pc = "configure" /\ writes < MaxWrites
        /\ leg' = [leg EXCEPT ![param] = bool_value]
        /\ writes' = writes + 1
        /\ UNCHANGED <<lenv, ran, errors, pc, idx, issued, exc, top>>

\* handle_line of ks/qubes.py, lines 284-285
LegacySetDefaultTemplate ==
    \E value \in {"fedora", "debian", "gentoo"} :
        /\ pc = "configure" /\ writes < MaxWrites
        /\ leg' = [leg EXCEPT !.default_template = value]
        /\ writes' = writes + 1
        /\ UNCHANGED <<lenv, ran, errors, pc, idx, issued, exc, top>>

\* handle_line of ks/qubes.py, lines 286-287
LegacySetTemplates ==
    \E value \in {<<>>, <<"fedora">>} :
        /\ pc = "configure" /\ writes < MaxWrites
        /\ leg' = [leg EXCEPT !.templates_to_install = value]
        /\ writes' = writes + 1
        /\ UNCHANGED <<lenv, ran, errors, pc, idx, issued, exc, top>>

\* do_setup, lines 332-348
DoSetupBegin ==
    /\ pc = "configure"
    /\ IF ~lenv.has_user
       THEN pc' = "raised" /\ exc' = "NoUserAccount"
       ELSE IF leg.skip
       THEN pc' = "done" /\ exc' = exc
       ELSE pc' = "next_step" /\ exc' = exc
    /\ UNCHANGED <<lenv, leg, ran, errors, writes, idx, issued, top>>

\* do_setup calls its next step; configure_default_template first replaces
\* default_template by the name with its version (line 463)
DoSetupEnterStep ==
    /\ pc = "next_step"
    /\ Len(ran) < Len(Steps(leg))
    /\ LET step == Steps(leg)[Len(ran) + 1]
           versions == step = "configure_default_template"
                       /\ truthy(leg.default_template)
                       /\ has_templates_version(lenv, leg.default_template)
       IN  /\ ran' = Append(ran, step)
           /\ leg' = IF versions
                     THEN [leg EXCEPT !.default_template =
                              name_dash_version(@, TemplateVersion(@))]
                     ELSE leg
           /\ idx' = IF versions THEN 1 ELSE 0
    /\ pc' = "step"
    /\ UNCHANGED <<lenv, errors, writes, issued, exc, top>>

CurrentStep == ran[Len(ran)]
CurrentScript ==
    StepScript(CurrentStep, leg, lenv, SelectSeq(issued, LAMBDA c : c.step = CurrentStep),
               idx >= 1)
\* position of the next statement of the current step (idx counts from 0,
\* or from 1 once configure_default_template has set the version)
Position ==
    IF CurrentStep = "configure_default_template" /\ truthy(leg.default_template)
    THEN IF idx = 0 THEN 1 ELSE idx
    ELSE idx + 1

\* the next statement of the current step raises by itself
DoSetupRaise ==
    /\ pc = "step"
    /\ Position <= Len(CurrentScript)
    /\ CurrentScript[Position].kind = "raise"
    /\ pc' = "raised"
    /\ exc' = CurrentScript[Position].exc
    /\ UNCHANGED <<lenv, leg, ran, errors, writes, idx, issued, top>>

\* the next statement of the current step starts a program
DoSetupCommand ==
    /\ pc = "step"
    /\ Position <= Len(CurrentScript)
    /\ CurrentScript[Position].kind # "raise"
    /\ LET c == CurrentScript[Position]
       IN  \E rc \in ReturnCodes(c.cmd) :
            /\ issued' = Append(issued,
                   [cmd |-> c.cmd, via |-> c.kind,
                    ignore_failure |-> c.ignore_failure,
                    rc |-> observed_rc(c.kind, c.ignore_failure, rc),
                    step |-> CurrentStep])
            /\ top' = salt_effect(top, c.cmd, rc)
            /\ IF legacy_process_error(rc, c.ignore_failure)
               THEN IF caught_by_do_setup(CurrentStep)
                    THEN /\ errors' = Append(errors, "Default DVM")
                         /\ pc' = "next_step"
                         /\ exc' = exc
                         /\ idx' = 0
                    ELSE /\ pc' = "raised"
                         /\ exc' = IF c.kind = "startProgram" THEN "OSError"
                                   ELSE IF c.in_try THEN "ConfigurationFailed"
                                   ELSE "ProcessError"
                         /\ UNCHANGED <<errors, idx>>
               ELSE /\ idx' = idx + 1
                    /\ UNCHANGED <<pc, exc, errors>>
    /\ UNCHANGED <<lenv, leg, ran, writes>>

\* the current step returns
DoSetupStepReturns ==
    /\ pc = "step"
    /\ Position = Len(CurrentScript) + 1
    /\ pc' = "next_step"
    /\ idx' = 0
    /\ UNCHANGED <<lenv, leg, ran, errors, writes, issued, exc, top>>

\* do_setup, lines 370-375: the collected errors are raised as one exception
DoSetupReport ==
    /\ pc = "next_step"
    /\ Len(ran) = Len(Steps(leg))
    /\ IF errors # <<>>
       THEN pc' = "raised" /\ exc' = "Aggregated"
       ELSE pc' = "done" /\ exc' = exc
    /\ UNCHANGED <<lenv, leg, ran, errors, writes, idx, issued, top>>

\* the machines the legacy add-on runs on
LegacyEnvs ==
    [has_user : BOOLEAN,
     available : AvailableSets,
     kernels : {{}, {"5.15", "6.1"}},
     default_tpool : {NoneTuple, <<"qubes_dom0", "vm-pool">>},
     usbvm_available : {TRUE},
     usb_keyboards_detected : {FALSE}]

InitLegacy ==
    /\ ServiceIdle
    /\ task = NoTask /\ tenv = NoTenv
    /\ lenv \in LegacyEnvs
    /\ leg = LegacyInit(lenv)
    /\ ran = <<>> /\ errors = <<>>
    /\ pc = "configure" /\ idx = 0 /\ issued = <<>> /\ exc = "none" /\ top = {}
    /\ KsIdle
    /\ GuiIdle
    /\ TpoolIdle

NextLegacy ==
    \/ (LegacySetBool /\ UNCHANGED <<env, svc, result, task, tenv>> /\ UNCHANGED ksVars /\ UNCHANGED guiVars /\ UNCHANGED tpVars)
    \/ (LegacySetDefaultTemplate /\ UNCHANGED <<env, svc, result, task, tenv>> /\ UNCHANGED ksVars /\ UNCHANGED guiVars /\ UNCHANGED tpVars)
    \/ (LegacySetTemplates /\ UNCHANGED <<env, svc, result, task, tenv>> /\ UNCHANGED ksVars /\ UNCHANGED guiVars /\ UNCHANGED tpVars)
    \/ (DoSetupBegin /\ UNCHANGED <<env, svc, result, task, tenv>> /\ UNCHANGED ksVars /\ UNCHANGED guiVars /\ UNCHANGED tpVars)
    \/ (DoSetupEnterStep /\ UNCHANGED <<env, svc, result, task, tenv>> /\ UNCHANGED ksVars /\ UNCHANGED guiVars /\ UNCHANGED tpVars)
    \/ (DoSetupRaise /\ UNCHANGED <<env, svc, result, task, tenv>> /\ UNCHANGED ksVars /\ UNCHANGED guiVars /\ UNCHANGED tpVars)
    \/ (DoSetupCommand /\ UNCHANGED <<env, svc, result, task, tenv>> /\ UNCHANGED ksVars /\ UNCHANGED guiVars /\ UNCHANGED tpVars)
    \/ (DoSetupStepReturns /\ UNCHANGED <<env, svc, result, task, tenv>> /\ UNCHANGED ksVars /\ UNCHANGED guiVars /\ UNCHANGED tpVars)
    \/ (DoSetupReport /\ UNCHANGED <<env, svc, result, task, tenv>> /\ UNCHANGED ksVars /\ UNCHANGED guiVars /\ UNCHANGED tpVars)

SpecLegacy == InitLegacy /\ [][NextLegacy]_vars

\* =========================================================================
\* service/kickstart.py: QubesData
\* =========================================================================
\* A text is a sequence of atoms: " " is a blank, "/" a slash, and every other
\* atom an unbroken run of other characters; None is the value PyNone.
PyNone == <<"<None>">>

\* QubesData.bool_options, in declaration order
bool_options ==
    <<"system_vms", "disp_firewallvm_and_usbvm", "disp_netvm", "default_vms",
      "whonix_vms", "whonix_default", "usbvm", "usbvm_with_netvm", "skip",
      "allow_usb_mouse", "allow_usb_keyboard", "create_default_tpool">>

\* QubesData.__init__: a boolean attribute holds "True", "False" or "None";
\* create_default_tpool is not assigned and so is no attribute ("unset")
QubesData ==
    [system_vms |-> "True",
     disp_firewallvm_and_usbvm |-> "True",
     disp_netvm |-> "False",
     default_vms |-> "True",
     whonix_vms |-> "None",
     whonix_default |-> "False",
     usbvm |-> "None",
     usbvm_with_netvm |-> "False",
     allow_usb_mouse |-> "False",
     allow_usb_keyboard |-> "None",
     create_default_tpool |-> "unset",
     vg_tpool |-> NoneTuple,
     skip |-> "False",
     default_template |-> PyNone,
     templates_to_install |->
        << <<"fedora">>, <<"debian">>, <<"whonix-gateway">>, <<"whonix-workstation">> >>]

\* str.strip() for the blank
RECURSIVE lstrip(_)
lstrip(text) ==
    IF text # <<>> /\ Head(text) = " " THEN lstrip(Tail(text)) ELSE text
RECURSIVE rstrip(_)
rstrip(text) ==
    IF text # <<>> /\ text[Len(text)] = " "
    THEN rstrip(SubSeq(text, 1, Len(text) - 1)) ELSE text
strip(text) == rstrip(lstrip(text))

\* the longest prefix without the separator, and what follows it
RECURSIVE until(_, _)
until(text, sep) ==
    IF text = <<>> \/ Head(text) = sep THEN <<>>
    ELSE <<Head(text)>> \o until(Tail(text), sep)
after(text, sep) == SubSeq(text, Len(until(text, sep)) + 1, Len(text))

\* str.split(maxsplit=1): at most two words, split at the first run of blanks
split_maxsplit_1(text) ==
    LET body == lstrip(text)
        word == until(body, " ")
        rest == lstrip(after(body, " "))
    IN  IF body = <<>> THEN <<>>
        ELSE IF rest = <<>> THEN <<word>>
        ELSE <<word, rest>>

\* str.split(sep): one more part than there are separators
RECURSIVE split(_, _)
split(text, sep) ==
    LET part == until(text, sep)
        tail == after(text, sep)
    IN  IF tail = <<>> THEN <<part>>
        ELSE <<part>> \o split(Tail(tail), sep)

\* sep.join(parts)
RECURSIVE join(_, _)
join(parts, sep) ==
    IF parts = <<>> THEN <<>>
    ELSE IF Len(parts) = 1 THEN parts[1]
    ELSE parts[1] \o <<sep>> \o join(Tail(parts), sep)

\* str.lower()
lower_atom(a) ==
    CASE a \in {"True", "TRUE"} -> "true"
      [] a \in {"False", "FALSE"} -> "false"
      [] a = "None" -> "none"
      [] OTHER -> a
lower(text) == [i \in 1..Len(text) |-> lower_atom(text[i])]

\* handle_line, lines 89-96: the parameter and the value of a line
parse_line(line) ==
    LET stripped == strip(line)
        words == split_maxsplit_1(stripped)
    IN  IF Len(words) = 2
        THEN [raised |-> "none", param |-> words[1], value |-> words[2]]
        ELSE IF " " \notin Range(stripped)
        THEN [raised |-> "none", param |-> stripped, value |-> <<>>]
        ELSE [raised |-> "KickstartValueError", param |-> <<>>, value |-> <<>>]

\* a variant of handle_line that takes any value for a boolean option
is_bool_text_any(value) == TRUE

\* handle_line, line 98
is_bool_text(value) == lower(value) \in {<<"true">>, <<"false">>}

\* handle_line, lines 97-112: the data after the call, and what it raised
handle_line(data, line) ==
    LET parsed == parse_line(line)
        param == parsed.param
        value == parsed.value
        KickstartValueError == [raised |-> "KickstartValueError", data |-> data]
    IN  IF parsed.raised # "none" THEN KickstartValueError
        ELSE IF Len(param) = 1 /\ param[1] \in Range(bool_options)
        THEN IF ~is_bool_text(value) THEN KickstartValueError
             ELSE [raised |-> "none",
                   data |-> [data EXCEPT ![param[1]] =
                        IF lower(value) = <<"true">> THEN "True" ELSE "False"]]
        ELSE IF param = <<"default_template">>
        THEN [raised |-> "none", data |-> [data EXCEPT !.default_template = value]]
        ELSE IF param = <<"templates_to_install">>
        THEN [raised |-> "none",
              data |-> [data EXCEPT !.templates_to_install =
                            SelectSeq(split(value, " "), LAMBDA t : t # <<>>)]]
        ELSE IF param = <<"lvm_pool">>
        THEN LET parsed_pool == split(value, "/")
             IN  IF Len(parsed_pool) # 2 THEN KickstartValueError
                 ELSE [raised |-> "none",
                       data |-> [data EXCEPT !.vg_tpool =
                                    <<parsed_pool[1], parsed_pool[2]>>]]
        ELSE KickstartValueError

\* __str__, lines 117-128: the key-value lines between %addon and %end, or
\* AttributeError for an option that is no attribute of the object
str_QubesData(data) ==
    IF \E i \in 1..Len(bool_options) : data[bool_options[i]] = "unset"
    THEN [raised |-> "AttributeError", lines |-> <<>>]
    ELSE [raised |-> "none",
          lines |->
            [i \in 1..Len(bool_options) |->
                <<bool_options[i], " ", data[bool_options[i]]>>]
            \o (IF data.default_template \notin {PyNone, <<>>}
                THEN << <<"default_template", " ">> \o data.default_template >>
                ELSE <<>>)
            \o << <<"templates_to_install", " ">>
                  \o join(data.templates_to_install, " ") >>
            \o (IF data.vg_tpool # NoneTuple
                THEN << <<"lvm_pool", " ">> \o data.vg_tpool[1] \o <<"/">>
                        \o data.vg_tpool[2] >>
                ELSE <<>>)]

\* handle_line called for each line in turn, stopping at the first that raises
RECURSIVE feed(_, _)
feed(data, lines) ==
    IF lines = <<>> THEN [raised |-> "none", data |-> data]
    ELSE LET r == handle_line(data, Head(lines))
         IN  IF r.raised # "none" THEN r ELSE feed(r.data, Tail(lines))

\* ---- the lines given to handle_line
KsParams ==
    {"skip", "whonix_vms", "usbvm", "allow_usb_keyboard", "create_default_tpool",
     "default_template", "templates_to_install", "lvm_pool", "bogus"}
KsValues ==
    {<<"true">>, <<"True">>, <<"FALSE">>, <<"yes">>, <<"None">>,
     <<"fedora">>, <<"fedora", " ", "debian">>, <<"fedora", " ", " ", "debian">>,
     <<"vg", "/", "pool">>, <<"vg", "/", "pool", "/", "x">>, <<"/">>}
KsLines ==
    {<<p, " ">> \o v : p \in KsParams, v \in KsValues}
    \cup {<<p>> : p \in KsParams}
    \cup {<<>>, <<" ">>, <<" ", "skip", " ", " ", "TRUE", " ">>,
          <<"lvm_pool", " ", "vg", " ", "/", "pool">>}

\* ---- actions
HandleLine ==
    \E line \in KsLines :
        /\ kout = NoKs
        /\ klines < MaxLines
        /\ LET r == handle_line(kd, line)
           IN  /\ kd' = r.data
               /\ klast' = [called |-> TRUE, line |-> line, raised |-> r.raised,
                            before |-> kd]
        /\ klines' = klines + 1
        /\ UNCHANGED <<kout, kfresh>>

Str ==
    /\ kout = NoKs
    /\ kout' = [called |-> TRUE] @@ str_QubesData(kd)
    /\ klast' = NoKs
    /\ UNCHANGED <<kd, klines, kfresh>>

Replay ==
    /\ kout # NoKs /\ kout.raised = "none"
    /\ kfresh = NoKs
    /\ kfresh' = [called |-> TRUE] @@ feed(QubesData, kout.lines)
    /\ UNCHANGED <<kd, klines, klast, kout>>

InitKs ==
    /\ ServiceIdle
    /\ TaskIdle
    /\ LegacyIdle
    /\ kd = QubesData /\ klines = 0
    /\ klast = NoKs /\ kout = NoKs /\ kfresh = NoKs
    /\ GuiIdle
    /\ TpoolIdle

NextKs ==
    \/ (HandleLine /\ UNCHANGED svcVars /\ UNCHANGED taskVars /\ UNCHANGED legVars /\ UNCHANGED guiVars /\ UNCHANGED tpVars)
    \/ (Str /\ UNCHANGED svcVars /\ UNCHANGED taskVars /\ UNCHANGED legVars /\ UNCHANGED guiVars /\ UNCHANGED tpVars)
    \/ (Replay /\ UNCHANGED svcVars /\ UNCHANGED taskVars /\ UNCHANGED legVars /\ UNCHANGED guiVars /\ UNCHANGED tpVars)

SpecKs == InitKs /\ [][NextKs]_vars

\* =========================================================================
\* gui/spokes/qubes_os.py: QubesOsSpoke
\* =========================================================================
\* The attributes of the spoke that hold a check button. Gtk delivers the
\* toggled and notify::sensitive signals before set_active / set_sensitive
\* return, so between two handlers every widget has the sensitivity its last
\* friend_on_toggled or disable_configuration gave it.
Choices ==
    {"choice_install_fedora", "choice_install_debian", "choice_install_whonix",
     "choice_system", "choice_disp_firewallvm_and_usbvm", "choice_disp_netvm",
     "choice_default", "choice_usb", "choice_usb_with_netvm",
     "choice_allow_usb_mouse", "choice_allow_usb_keyboard",
     "choice_whonix", "choice_whonix_updates", "check_advanced"}

\* init_qubes_choices, lines 462-466: without Whonix the three Whonix
\* attributes hold one and the same disabled button
widget_of(choice, e) ==
    IF ~whonix_available(e) /\ choice \in {"choice_whonix", "choice_whonix_updates"}
    THEN "choice_install_whonix" ELSE choice

\* QubesDisabledButtonChoice, lines 146-150, chosen in init_qubes_choices
can_be_sensitive(choice, e) ==
    CASE choice = "choice_install_fedora" -> is_template_rpm_available(e.available, "fedora")
      [] choice = "choice_install_debian" -> is_template_rpm_available(e.available, "debian")
      [] choice = "choice_install_whonix" -> whonix_available(e)
      [] choice = "choice_usb" -> e.usbvm_available
      [] OTHER -> TRUE

\* widget.get_sensitive() of every check button, for the active flags a:
\* friend_on_toggled (92-93), QubesTemplateChoice.are_dependencies_selected
\* (237-242), disable_configuration (163-171) and the dependencies given in
\* init_qubes_choices
get_sensitive(a, e) ==
    LET adv == a["check_advanced"]
        sFedora == can_be_sensitive("choice_install_fedora", e) /\ ~adv
        sDebian == can_be_sensitive("choice_install_debian", e) /\ ~adv
        sInstWhonix == can_be_sensitive("choice_install_whonix", e) /\ ~adv
        template == \/ (sFedora /\ a["choice_install_fedora"])
                    \/ (sDebian /\ a["choice_install_debian"])
        sSystem == template
        system == sSystem /\ a["choice_system"]
        sUsb == can_be_sensitive("choice_usb", e) /\ template
        usb == sUsb /\ a["choice_usb"]
        instWhonix == sInstWhonix /\ a["choice_install_whonix"]
        sWhonix == instWhonix /\ system
        whonix == sWhonix /\ a["choice_whonix"]
    IN  [c \in Choices |->
            CASE c = "choice_install_fedora" -> sFedora
              [] c = "choice_install_debian" -> sDebian
              [] c = "choice_install_whonix" -> sInstWhonix
              [] c = "choice_system" -> sSystem
              [] c \in {"choice_disp_firewallvm_and_usbvm", "choice_disp_netvm",
                        "choice_default"} -> system
              [] c = "choice_usb" -> sUsb
              [] c \in {"choice_usb_with_netvm", "choice_allow_usb_mouse",
                        "choice_allow_usb_keyboard"} -> usb
              [] c = "choice_whonix" ->
                    IF whonix_available(e) THEN sWhonix ELSE FALSE
              [] c = "choice_whonix_updates" ->
                    IF whonix_available(e) THEN whonix ELSE FALSE
              [] OTHER -> TRUE]

\* QubesChoiceBase.get_selected, lines 79-84 (selected is None for buttons)
get_selected(g, e, choice) ==
    LET w == widget_of(choice, e)
    IN  get_sensitive(g.active, e)[w] /\ g.active[w]

\* QubesTemplateChoice.friend_on_toggled, lines 228-234: the entries of the
\* combo box (the aliases stand for their template) and its active entry
entries(a, e) ==
    LET s == get_sensitive(a, e)
    IN  (IF s["choice_install_fedora"] /\ a["choice_install_fedora"]
         THEN <<"fedora">> ELSE <<>>)
        \o (IF s["choice_install_debian"] /\ a["choice_install_debian"]
            THEN <<"debian">> ELSE <<>>)
first_entry(a, e) == IF entries(a, e) = <<>> THEN None ELSE entries(a, e)[1]

\* get_thin_pools, lines 868-880: the thin pools lvs lists
get_thin_pools(e) ==
    IF e.default_tpool # NoneTuple /\ ~e.default_tpool[3]
    THEN {<<e.default_tpool[1], e.default_tpool[2]>>} ELSE {}

\* the widgets after set_active calls gave the check buttons the flags a:
\* the template combo box is filled again when a template button changed
with_active(g, e, a) ==
    LET templates == {"choice_install_fedora", "choice_install_debian"}
        changed == \E c \in templates :
                      \/ a[c] # g.active[c]
                      \/ get_sensitive(a, e)[c] # get_sensitive(g.active, e)[c]
    IN  [g EXCEPT !.active = a,
                  !.entry = IF changed THEN first_entry(a, e) ELSE @]

\* init_qubes_choices, lines 609-635: the default choices
init_qubes_choices(e) ==
    LET off == [c \in Choices |-> FALSE]
        a2 == [off EXCEPT !["choice_install_fedora"] = can_be_sensitive("choice_install_fedora", e),
                          !["choice_install_debian"] = can_be_sensitive("choice_install_debian", e),
                         !["choice_install_whonix"] = can_be_sensitive("choice_install_whonix", e),
                         !["choice_system"] = TRUE,
                         !["choice_disp_firewallvm_and_usbvm"] = TRUE,
                         !["choice_default"] = TRUE]
        a3 == [a2 EXCEPT !["choice_whonix"] =
                    whonix_available(e) /\ get_sensitive(a2, e)["choice_whonix"]]
        a4 == [a3 EXCEPT !["choice_usb"] = get_sensitive(a3, e)["choice_usb"]]
    IN  [constructed |-> TRUE,
         active |-> a4,
         entry |-> first_entry(a4, e),
         create_pool |-> TRUE,
         pool |-> IF <<"qubes_dom0", "vm-pool">> \in get_thin_pools(e)
                  THEN <<"qubes_dom0", "vm-pool">> ELSE NoneTuple,
         seen |-> FALSE,
         last |-> "__init__"]

\* ---- actions
\* refresh, lines 659-715
refresh ==
    /\ gui.constructed
    /\ LET w(c) == widget_of(c, env)
           a0 == gui.active
           a1 == [a0 EXCEPT
                    !["choice_install_fedora"] =
                        is_template_rpm_available(env.available, "fedora")
                        /\ "fedora" \in Range(svc.templates_to_install),
                    !["choice_install_debian"] =
                        is_template_rpm_available(env.available, "debian")
                        /\ "debian" \in Range(svc.templates_to_install),
                    !["choice_install_whonix"] =
                        whonix_available(env)
                        /\ "whonix-gw" \in Range(svc.templates_to_install)
                        /\ "whonix-ws" \in Range(svc.templates_to_install),
                    !["choice_system"] = svc.system_vms,
                    !["choice_disp_firewallvm_and_usbvm"] = svc.disp_firewallvm_and_usbvm,
                    !["choice_disp_netvm"] = svc.disp_netvm,
                    !["choice_default"] = svc.default_vms]
           a2 == [a1 EXCEPT ![w("choice_whonix")] = svc.whonix_vms]
           a3 == [a2 EXCEPT ![w("choice_whonix_updates")] = svc.whonix_default]
           a4 == [a3 EXCEPT
                    !["choice_usb"] = svc.usbvm,
                    !["choice_usb_with_netvm"] = svc.usbvm_with_netvm,
                    !["choice_allow_usb_mouse"] = svc.allow_usb_mouse,
                    !["choice_allow_usb_keyboard"] = svc.allow_usb_keyboard,
                    !["check_advanced"] = svc.skip]
           g1 == with_active(gui, env, a4)
       IN  gui' = [g1 EXCEPT
                    !.create_pool =
                        IF svc.lvm_setup THEN @ \/ svc.create_default_tpool ELSE @,
                    !.pool =
                        IF svc.lvm_setup /\ svc.vg_tpool \in get_thin_pools(env)
                        THEN svc.vg_tpool ELSE @,
                    !.last = "refresh"]
    /\ UNCHANGED <<env, svc, writes, result, clicks>>

\* the user clicks a check button that is sensitive
Toggle ==
    \E c \in Choices :
        /\ gui.constructed
        /\ clicks < MaxClicks
        /\ widget_of(c, env) = c
        /\ get_sensitive(gui.active, env)[c]
        /\ gui' = [with_active(gui, env, [gui.active EXCEPT ![c] = ~@])
                        EXCEPT !.last = "toggled"]
        /\ clicks' = clicks + 1
        /\ UNCHANGED <<env, svc, writes, result>>

\* the user picks another entry of the default template combo box
SelectEntry ==
    \E t \in Range(entries(gui.active, env)) :
        /\ gui.constructed
        /\ clicks < MaxClicks
        /\ t # gui.entry
        /\ gui' = [gui EXCEPT !.entry = t, !.last = "changed"]
        /\ clicks' = clicks + 1
        /\ UNCHANGED <<env, svc, writes, result>>

\* the user clicks the radio button of the pool choice that is not active
TogglePoolRadio ==
    /\ gui.constructed
    /\ clicks < MaxClicks
    /\ svc.lvm_setup
    /\ ~gui.active["check_advanced"]
    /\ gui' = [gui EXCEPT !.create_pool = ~@, !.last = "toggled"]
    /\ clicks' = clicks + 1
    /\ UNCHANGED <<env, svc, writes, result>>

\* apply, lines 724-770
apply ==
    /\ gui.constructed
    /\ LET sel(c) == get_selected(gui, env, c)
           s1 == [svc EXCEPT
                    !.skip = sel("check_advanced"),
                    !.templates_to_install =
                        (IF sel("choice_install_fedora") THEN <<"fedora">> ELSE <<>>)
                        \o (IF sel("choice_install_debian") THEN <<"debian">> ELSE <<>>)
                        \o (IF sel("choice_install_whonix")
                            THEN <<"whonix-gw", "whonix-ws">> ELSE <<>>),
                    !.default_template = IF gui.entry # None THEN gui.entry ELSE @,
                    !.system_vms = sel("choice_system"),
                    !.disp_firewallvm_and_usbvm = sel("choice_disp_firewallvm_and_usbvm"),
                    !.disp_netvm = sel("choice_disp_netvm"),
                    !.default_vms = sel("choice_default"),
                    !.usbvm = sel("choice_usb"),
                    !.usbvm_with_netvm = sel("choice_usb_with_netvm"),
                    !.allow_usb_mouse = sel("choice_allow_usb_mouse"),
                    !.whonix_vms = sel("choice_whonix"),
                    !.whonix_default = sel("choice_whonix_updates")]
           create == ~gui.active["check_advanced"] /\ gui.create_pool
       IN  svc' = IF ~svc.lvm_setup THEN s1
                  ELSE IF create THEN [s1 EXCEPT !.create_default_tpool = TRUE]
                  ELSE IF gui.pool # NoneTuple
                  THEN [s1 EXCEPT !.vg_tpool = gui.pool,
                                  !.create_default_tpool = FALSE]
                  ELSE s1
    /\ gui' = [gui EXCEPT !.seen = TRUE, !.last = "apply"]
    /\ UNCHANGED <<env, writes, result, clicks>>

InitGui ==
    /\ env \in Envs
    /\ svc = ServiceInit(env)
    /\ writes = 0
    /\ result = NotCalled
    /\ TaskIdle
    /\ LegacyIdle
    /\ KsIdle
    /\ gui = init_qubes_choices(env)
    /\ clicks = 0
    /\ TpoolIdle

NextGui ==
    \/ (refresh /\ UNCHANGED taskVars /\ UNCHANGED legVars /\ UNCHANGED ksVars /\ UNCHANGED tpVars)
    \/ (Toggle /\ UNCHANGED taskVars /\ UNCHANGED legVars /\ UNCHANGED ksVars /\ UNCHANGED tpVars)
    \/ (SelectEntry /\ UNCHANGED taskVars /\ UNCHANGED legVars /\ UNCHANGED ksVars /\ UNCHANGED tpVars)
    \/ (TogglePoolRadio /\ UNCHANGED taskVars /\ UNCHANGED legVars /\ UNCHANGED ksVars /\ UNCHANGED tpVars)
    \/ (apply /\ UNCHANGED taskVars /\ UNCHANGED legVars /\ UNCHANGED ksVars /\ UNCHANGED tpVars)

SpecGui == InitGui /\ [][NextGui]_vars

\* =========================================================================
\* utils.py: get_default_tpool
\* =========================================================================
\* In this part a device or volume name is the sequence of its pieces: a
\* hyphen is the piece "-", and every other piece is a run of characters
\* without a hyphen ("a", "1", "root", "tpool", ...).

\* str.replace(old, new): the occurrences of old are found from the left
\* and do not overlap
RECURSIVE replace(_, _, _)
replace(text, old, new) ==
    IF Len(text) < Len(old) THEN text
    ELSE IF SubSeq(text, 1, Len(old)) = old
         THEN new \o replace(SubSeq(text, Len(old) + 1, Len(text)), old, new)
         ELSE <<Head(text)>> \o replace(Tail(text), old, new)

\* str.rsplit(sep, maxsplit) for a separator of one character: at most
\* maxsplit cuts, taken from the right
RECURSIVE rsplit(_, _, _)
rsplit(text, sep, maxsplit) ==
    LET hits == {i \in 1..Len(text) : text[i] = sep}
    IN  IF maxsplit = 0 \/ hits = {} THEN <<text>>
        ELSE LET last == CHOOSE i \in hits : \A j \in hits : j <= i
             IN  rsplit(SubSeq(text, 1, last - 1), sep, maxsplit - 1)
                 \o <<SubSeq(text, last + 1, Len(text))>>

\* str.endswith(suffix)
endswith(text, suffix) ==
    /\ Len(text) >= Len(suffix)
    /\ SubSeq(text, Len(text) - Len(suffix) + 1, Len(text)) = suffix

\* ---- what device-mapper reports
\* lines 220-221: LVM doubles every hyphen of a name, joins the volume group
\* and the volume with one hyphen, and calls the device below a thin volume
\* <vg>-<pool>-tpool
lvm_escape(name) == replace(name, <<"-">>, <<"-", "-">>)
dm_name(vg, lv) == lvm_escape(vg) \o <<"-">> \o lvm_escape(lv)
tpool_name(vg, pool) == dm_name(vg, pool) \o <<"-", "tpool">>

\* Names of at most MaxLen characters out of a letter, a digit and a hyphen
Names == UNION {[1..n -> {"a", "1", "-"}] : n \in 1..MaxLen}
root_pool == <<"root", "-", "pool">>
vm_pool == <<"vm", "-", "pool">>
VgNames == Names \cup {<<"qubes_dom0">>}
LvNames == Names \cup {root_pool, vm_pool, <<"pool00">>}

\* The root volume as get_default_tpool finds it: the exit status of
\* dmsetup, the target type of its table, the volume group and volume the
\* device below is named after, whether that device is a thin pool, and the
\* exit status of lvs <vg>/vm-pool.
DmEnvs == [dmsetup : {"ok", "fails"},
           target_type : {"thin", "linear", "crypt"},
           vg : VgNames,
           lv : LvNames,
           tpool : BOOLEAN,
           lvs : {"ok", "fails"}]

\* lines 217-218: the content of /sys/dev/block/<devnum>/dm/name
lower_devname_of(e) ==
    IF e.tpool THEN tpool_name(e.vg, e.lv) ELSE dm_name(e.vg, e.lv)

\* a variant that leaves doubled hyphens as they are
replace_hyphens_skipped(lower_devname) == lower_devname

\* lines 222 and 227: lower_devname.replace("--", "=")
replace_hyphens(lower_devname) == replace(lower_devname, <<"-", "-">>, <<"=">>)

\* lines 224-225 and 229: .replace("=", "-")
restore_hyphens(name) == replace(name, <<"=">>, <<"-">>)

\* lines 219-230: volume_group and thin_pool out of lower_devname; unpacking
\* a list of the wrong length raises ValueError
split_lower_devname(lower_devname) ==
    LET failed == [raised |-> "ValueError", volume_group |-> <<>>,
                   thin_pool |-> <<>>]
    IN  IF endswith(lower_devname, <<"-", "tpool">>)
        THEN LET parts == rsplit(replace_hyphens(lower_devname), "-", 2)
             IN  IF Len(parts) # 3 THEN failed
                 ELSE [raised |-> "none",
                       volume_group |-> restore_hyphens(parts[1]),
                       thin_pool |-> restore_hyphens(parts[2])]
        ELSE LET parts == rsplit(replace_hyphens(lower_devname), "-", 1)
             IN  IF Len(parts) # 2 THEN failed
                 ELSE [raised |-> "none",
                       volume_group |-> restore_hyphens(parts[1]),
                       thin_pool |-> PyNone]

\* a variant that keeps a thin pool named root-pool
uses_vm_pool_unless_found(thin_pool) == thin_pool = PyNone

\* line 232: thin_pool in (None, "root-pool")
uses_vm_pool(thin_pool) == thin_pool \in {PyNone, root_pool}

\* get_default_tpool: what it returns (the empty tuple for None) or raises,
\* with the values of volume_group and thin_pool after line 230
get_default_tpool(e) ==
    LET early == [raised |-> "none", value |-> NoneTuple, parsed |-> FALSE,
                  volume_group |-> <<>>, thin_pool |-> <<>>]
        names == split_lower_devname(lower_devname_of(e))
        thin_pool == IF uses_vm_pool(names.thin_pool)
                     THEN vm_pool ELSE names.thin_pool
        create == uses_vm_pool(names.thin_pool) /\ e.lvs = "fails"
    IN  IF e.dmsetup = "fails" THEN early
        ELSE IF e.target_type \notin {"thin", "linear"} THEN early
        ELSE IF names.raised # "none"
        THEN [raised |-> names.raised, value |-> NoneTuple, parsed |-> FALSE,
              volume_group |-> <<>>, thin_pool |-> <<>>]
        ELSE [raised |-> "none",
              value |-> IF names.volume_group # <<>> /\ thin_pool # <<>>
                        THEN <<names.volume_group, thin_pool, create>>
                        ELSE NoneTuple,
              parsed |-> TRUE,
              volume_group |-> names.volume_group,
              thin_pool |-> names.thin_pool]

\* ---- the action
GetDefaultTpool ==
    /\ ~tp.called
    /\ tp' = [called |-> TRUE] @@ get_default_tpool(dm)
    /\ UNCHANGED dm

InitTpool ==
    /\ ServiceIdle
    /\ TaskIdle
    /\ LegacyIdle
    /\ KsIdle
    /\ GuiIdle
    /\ dm \in DmEnvs
    /\ tp = [called |-> FALSE]

NextTpool ==
    \/ (GetDefaultTpool /\ UNCHANGED svcVars /\ UNCHANGED taskVars /\ UNCHANGED legVars /\ UNCHANGED ksVars /\ UNCHANGED guiVars)

SpecTpool == InitTpool /\ [][NextTpool]_vars

\* =========================================================================
\* Properties of install_with_tasks (specification Spec)
\* =========================================================================
ClassesOf(tasks) == [i \in 1..Len(tasks) |-> tasks[i].cls]

\* the order of task classes C1 states, for the settings s on machine e
ClaimedClasses(s, e) ==
    LET resolved == truthy(resolve_default_template(s, e))
    IN  <<"DefaultKernelTask">>
        \o (IF s.lvm_setup THEN <<"DefaultPoolTask">> ELSE <<>>)
        \o [i \in 1..Len(s.templates_to_install) |-> "InstallTemplateTask"]
        \o <<"CleanTemplatePkgsTask", "ConfigureDom0Task">>
        \o (IF resolved THEN <<"SetDefaultTemplateTask">> ELSE <<>>)
        \o <<"ConfigureDefaultQubesTask">>
        \o (IF resolved THEN <<"CreateDefaultDVMTask">> ELSE <<>>)
        \o <<"ConfigureNetworkTask">>

InstalledTemplates(tasks) ==
    LET inst == SelectSeq(tasks, LAMBDA t : t.cls = "InstallTemplateTask")
    IN  [i \in 1..Len(inst) |-> inst[i].args.template]

\* C1: for any settings with skip false, install_with_tasks returns the
\* tasks in the fixed order kernel, pool (iff lvm_setup), one install per
\* entry of templates_to_install in list order, clean, dom0, default
\* template (iff resolved), qubes configuration, default DVM (iff resolved),
\* network.
C1_FixedTaskOrder ==
    (result.called /\ ~result.skip) =>
        /\ result.raised = "none"
        /\ ClassesOf(result.tasks) = ClaimedClasses(result.settings, env)
        /\ InstalledTemplates(result.tasks) = result.settings.templates_to_install

\* C5: whenever skip is true, install_with_tasks returns an empty task list
\* (and raises nothing), whatever the other settings are.
C5_SkipReturnsNoTasks ==
    (result.called /\ result.skip) =>
        (result.raised = "none" /\ result.tasks = <<>>)

\* install_with_tasks was called with skip set and another setting changed
\* from what __init__ chose
C5_Witness ==
    /\ result.called /\ result.skip
    /\ result.tasks = <<>>
    /\ \E attr \in BoolProps \ {"skip"} :
           result.settings[attr] # ServiceInit(env)[attr]

\* =========================================================================
\* Properties of the tasks (specification SpecTask)
\* =========================================================================
\* a run_command call without ignore_failure whose program exited non-zero
\* or could not be started
FailedCall(c) ==
    c.via = "run_command" /\ ~c.ignore_failure /\ c.rc \in {"nonzero", "exception"}

\* C2: a command started through run_command without ignore_failure that
\* fails makes run() raise at once: it is the last command the task ever
\* issues (no later command, no retry, no rollback).
C2_FailureRaisesAtOnce ==
    \A k \in 1..Len(issued) :
        FailedCall(issued[k]) =>
            (k = Len(issued) /\ pc = "raised" /\ exc # "none")

\* a task failed at its third command
C2_Witness ==
    /\ Len(issued) = 3
    /\ FailedCall(issued[3])
    /\ issued[3].rc = "nonzero"
    /\ pc = "raised"

\* C3: the failure of the default DisposableVM task is not raised when it
\* happens (it is kept for a report at the end of the run), while the failure
\* of any other task is raised.
C3_OnlyDvmFailureDeferred ==
    \A k \in 1..Len(issued) :
        FailedCall(issued[k]) =>
            IF task.cls = "CreateDefaultDVMTask"
            THEN exc = "none" /\ pc # "raised"
            ELSE exc # "none" /\ pc = "raised"

IsCDQ == task.cls = "ConfigureDefaultQubesTask"
IsEnable(c) == c.cmd[1] = "qubesctl" /\ c.cmd[2] = "top.enable"
IsPillarEnable(c) == IsEnable(c) /\ Len(c.cmd) = 4
IsPlainEnable(c) == IsEnable(c) /\ Len(c.cmd) = 3
IsDisable(c) == c.cmd[1] = "qubesctl" /\ c.cmd[2] = "top.disable"
IsHighstate(c) == c.cmd = Highstate

\* C9: when ConfigureDefaultQubesTask.run returns without error, every
\* non-pillar state it enabled has been disabled after the highstate (and is
\* no longer in the top file), no pillar state has been disabled, and no
\* state is disabled that was not enabled earlier in the run.
C9_EnabledStatesDisabled ==
    (IsCDQ /\ pc = "done") =>
        /\ \A i \in 1..Len(issued) :
               IsPlainEnable(issued[i]) =>
                   /\ \E h, j \in 1..Len(issued) :
                          /\ i < h /\ h < j
                          /\ IsHighstate(issued[h])
                          /\ IsDisable(issued[j])
                          /\ issued[j].cmd[3] = issued[i].cmd[3]
                   /\ issued[i].cmd[3] \notin top
        /\ \A j \in 1..Len(issued) :
               IsDisable(issued[j]) =>
                   /\ ~\E i \in 1..Len(issued) :
                          IsPillarEnable(issued[i])
                          /\ issued[i].cmd[3] = issued[j].cmd[3]
                   /\ \E i \in 1..(j - 1) :
                          IsPlainEnable(issued[i])
                          /\ issued[i].cmd[3] = issued[j].cmd[3]
        /\ \A i \in 1..Len(issued) :
               IsPillarEnable(issued[i]) => issued[i].cmd[3] \in top

\* run() returned after enabling pillar and non-pillar states
C9_Witness ==
    /\ IsCDQ /\ pc = "done"
    /\ \E i \in 1..Len(issued) : IsPillarEnable(issued[i])
    /\ \E i \in 1..Len(issued) : IsPlainEnable(issued[i])
    /\ \E j \in 1..Len(issued) : IsDisable(issued[j])

\* C10: if the highstate fails, no top.disable command is issued, every
\* state enabled earlier in the run stays enabled, and run raises the generic
\* 'Qubes initial configuration failed' error.
C10_HighstateFailureKeepsStates ==
    \A k \in 1..Len(issued) :
        (IsCDQ /\ IsHighstate(issued[k]) /\ issued[k].rc # "ok") =>
            /\ k = Len(issued)
            /\ \A j \in 1..Len(issued) : ~IsDisable(issued[j])
            /\ \A i \in 1..(k - 1) :
                   IsEnable(issued[i]) => issued[i].cmd[3] \in top
            /\ pc = "raised"
            /\ exc = "ConfigurationFailed"

\* the highstate failed after states had been enabled
C10_Witness ==
    /\ IsCDQ /\ pc = "raised"
    /\ Len(issued) >= 5
    /\ IsHighstate(issued[Len(issued)])
    /\ issued[Len(issued)].rc = "nonzero"
    /\ \E i \in 1..Len(issued) : IsPlainEnable(issued[i])


\* =========================================================================
\* Properties of the legacy do_setup (specification SpecLegacy)
\* =========================================================================
\* a program of the history that made its caller raise
LegacyFailed(c) ==
    \/ c.rc = "exception"
    \/ (c.via = "run_command" /\ ~c.ignore_failure /\ c.rc = "nonzero")

\* C4: in the legacy do_setup the failure of the default DVM step is the only
\* one caught and collected, and it is reported in one aggregated exception
\* after every step has been attempted; the failure of any other step
\* propagates at once and none of the following steps runs.
C4_LegacyOnlyDvmFailureCollected ==
    /\ \A k \in 1..Len(issued) :
         LegacyFailed(issued[k]) =>
            IF issued[k].step = "configure_default_dvm"
            THEN /\ errors = <<"Default DVM">>
                 /\ ran = Steps(leg)
                 /\ pc \in {"next_step", "raised"}
                 /\ (pc = "raised" => exc = "Aggregated")
            ELSE /\ k = Len(issued)
                 /\ pc = "raised"
                 /\ exc \notin {"none", "Aggregated"}
                 /\ errors = <<>>
                 /\ ran[Len(ran)] = issued[k].step
    /\ (errors # <<>> =>
            \E k \in 1..Len(issued) :
                LegacyFailed(issued[k]) /\ issued[k].step = "configure_default_dvm")
    /\ (exc = "Aggregated" => pc = "raised" /\ errors # <<>> /\ ran = Steps(leg))
    /\ (pc = "raised" /\ exc # "Aggregated" => errors = <<>>)
    /\ (pc = "done" => errors = <<>> /\ (leg.skip \/ ran = Steps(leg)))

\* the default DVM step failed after the network and both service steps ran,
\* and do_setup ended with the aggregated exception
C4_Witness ==
    /\ pc = "raised" /\ exc = "Aggregated"
    /\ errors = <<"Default DVM">>
    /\ Len(ran) = 10
    /\ LegacyFailed(issued[Len(issued)])
    /\ issued[Len(issued)].step = "configure_default_dvm"

\* =========================================================================
\* Properties of the kickstart QubesData (specification SpecKs)
\* =========================================================================
SameSettings(a, b) ==
    /\ \A i \in 1..Len(bool_options) : a[bool_options[i]] = b[bool_options[i]]
    /\ a.default_template = b.default_template
    /\ a.templates_to_install = b.templates_to_install
    /\ a.vg_tpool = b.vg_tpool

\* C6: for every QubesData reachable from construction by accepted handle_line
\* calls (none included), str() succeeds, a fresh QubesData accepts every
\* key-value line of it, and ends with the same boolean options, default
\* template, templates to install and LVM pool.
C6_KickstartRoundTrip ==
    /\ (kout # NoKs => kout.raised = "none")
    /\ (kfresh # NoKs => kfresh.raised = "none" /\ SameSettings(kfresh.data, kd))

BoolTexts == {"true", "True", "TRUE", "false", "False", "FALSE"}
KnownParams ==
    {<<bool_options[i]>> : i \in 1..Len(bool_options)}
    \cup {<<"default_template">>, <<"templates_to_install">>, <<"lvm_pool">>}
UnknownParam(line) == parse_line(line).param \notin KnownParams
BadBool(line) ==
    LET p == parse_line(line)
    IN  /\ p.param \in {<<bool_options[i]>> : i \in 1..Len(bool_options)}
        /\ ~(Len(p.value) = 1 /\ p.value[1] \in BoolTexts)
BadPool(line) ==
    LET p == parse_line(line)
    IN  /\ p.param = <<"lvm_pool">>
        /\ Cardinality({i \in 1..Len(p.value) : p.value[i] = "/"}) # 1

\* C7: handle_line raises KickstartValueError for an unknown parameter name,
\* for a boolean option whose value is not 'true' or 'false' in any letter case
\* (no value included), and for an lvm_pool value that does not split on '/'
\* into exactly two parts; whenever it raises, no setting has changed.
C7_InvalidLinesRejected ==
    klast # NoKs =>
        /\ (UnknownParam(klast.line) \/ BadBool(klast.line) \/ BadPool(klast.line)
                => klast.raised = "KickstartValueError")
        /\ (klast.raised # "none" => kd = klast.before)

\* a boolean option without a value is rejected on a QubesData that an
\* earlier line has already changed
C7_Witness ==
    /\ klast # NoKs
    /\ klast.line = <<"whonix_vms">>
    /\ klast.raised = "KickstartValueError"
    /\ kd # QubesData
    /\ kd = klast.before

\* =========================================================================
\* Properties of the spoke (specification SpecGui)
\* =========================================================================
\* the setting each check button stands for
CheckboxOf ==
    [skip |-> "check_advanced",
     system_vms |-> "choice_system",
     disp_firewallvm_and_usbvm |-> "choice_disp_firewallvm_and_usbvm",
     disp_netvm |-> "choice_disp_netvm",
     default_vms |-> "choice_default",
     usbvm |-> "choice_usb",
     usbvm_with_netvm |-> "choice_usb_with_netvm",
     allow_usb_mouse |-> "choice_allow_usb_mouse",
     allow_usb_keyboard |-> "choice_allow_usb_keyboard",
     whonix_vms |-> "choice_whonix",
     whonix_default |-> "choice_whonix_updates"]

\* C8: when apply() has returned, each of skip, system_vms,
\* disp_firewallvm_and_usbvm, disp_netvm, default_vms, usbvm, usbvm_with_netvm,
\* allow_usb_mouse, allow_usb_keyboard, whonix_vms and whonix_default of the
\* service equals get_selected() of its check button.
C8_ApplyWritesEveryCheckbox ==
    (gui.constructed /\ gui.last = "apply") =>
        \A setting \in DOMAIN CheckboxOf :
            svc[setting] = get_selected(gui, env, CheckboxOf[setting])

\* the same for every setting but allow_usb_keyboard, the one setting that
\* apply() never assigns
ApplyWritesAllButKeyboard ==
    (gui.constructed /\ gui.last = "apply") =>
        \A setting \in DOMAIN CheckboxOf \ {"allow_usb_keyboard"} :
            svc[setting] = get_selected(gui, env, CheckboxOf[setting])

\* =========================================================================
\* Further properties of the tasks (specification SpecTask)
\* =========================================================================
Enable(name) == <<"qubesctl", "top.enable", name>>
EnablePillar(name) == <<"qubesctl", "top.enable", name, "pillar=True">>
\* the top.enable commands that belong to each option of the task
OptionEnables ==
    [system_vms |-> {Enable("qvm.sys-net"), Enable("qvm.sys-firewall"),
                     Enable("qvm.default-dispvm")},
     disp_firewallvm_and_usbvm |-> {EnablePillar("qvm.disposable-sys-firewall"),
                                    EnablePillar("qvm.disposable-sys-usb")},
     disp_netvm |-> {EnablePillar("qvm.disposable-sys-net")},
     disp_preload |-> {EnablePillar("qvm.disposable-preload")},
     default_vms |-> {Enable("qvm.personal"), Enable("qvm.work"),
                      Enable("qvm.untrusted"), Enable("qvm.vault")},
     whonix_vms |-> {Enable("qvm.sys-whonix"), Enable("qvm.anon-whonix")},
     whonix_default |-> {Enable("qvm.updates-via-whonix")},
     usbvm |-> {Enable("qvm.sys-usb")},
     usbvm_with_netvm |-> {EnablePillar("qvm.sys-net-as-usbvm")},
     allow_usb_mouse |-> {EnablePillar("qvm.sys-usb-allow-mouse")},
     allow_usb_keyboard |-> {EnablePillar("qvm.usb-keyboard")}]
SelectedEnables ==
    UNION {OptionEnables[o] : o \in {o \in DOMAIN OptionEnables : task.args[o]}}

\* C11: ConfigureDefaultQubesTask.run issues saltutil.clear_cache, then
\* saltutil.sync_all, then one top.enable per selected state, then the
\* highstate; each selected option contributes exactly its own states, each
\* enabled exactly once, and a state pillar.X is enabled as X with pillar=True.
C11_SaltCommandOrder ==
    IsCDQ =>
        LET n == Len(issued)
            enables == {i \in 1..n : IsEnable(issued[i])}
        IN  /\ \A i \in 1..n :
                   /\ (issued[i].cmd = <<"qubesctl", "saltutil.clear_cache">>) <=> (i = 1)
                   /\ (issued[i].cmd = <<"qubesctl", "saltutil.sync_all">>) <=> (i = 2)
            /\ \A i \in enables :
                   /\ i > 2
                   /\ issued[i].cmd \in SelectedEnables
                   /\ \A j \in enables : j # i => issued[j].cmd # issued[i].cmd
            /\ \A h \in 1..n :
                   IsHighstate(issued[h]) =>
                       /\ \A i \in enables : i < h
                       /\ {issued[i].cmd : i \in enables} = SelectedEnables
                       /\ h = 3 + Cardinality(SelectedEnables)
                       /\ \A i \in 1..(h - 1) : issued[i].rc = "ok"

\* the highstate was issued by a task with every option selected
C11_Witness ==
    /\ IsCDQ
    /\ \A o \in DOMAIN OptionEnables : task.args[o]
    /\ \E h \in 1..Len(issued) : IsHighstate(issued[h])

IsPoolTask == task.cls = "DefaultPoolTask"
IsLvcreate(c) == c.cmd[1] = "/usr/sbin/lvcreate"
IsPoolInfo(c) == c.cmd[1] = "qvm-pool" /\ c.cmd[2] = "info"
IsPoolAdd(c) == c.cmd[1] = "/usr/bin/qvm-pool" /\ c.cmd[2] = "--add"
IsDefaultPool(c) == c.cmd[1] = "/usr/bin/qubes-prefs" /\ c.cmd[2] = "default-pool"

\* C12: DefaultPoolTask.run issues 'qvm-pool --add' exactly when
\* 'qvm-pool info <pool>' exited non-zero, and in both cases sets the default
\* pool to that thin pool afterwards; when a pool is to be created, lvcreate
\* comes before any qvm-pool command and its failure prevents them; when
\* create_default_tpool is true and no volume group/pool is known, run raises
\* before issuing any command.
C12_PoolRegisteredOnlyIfMissing ==
    IsPoolTask =>
        LET n == Len(issued)
            a == task.args
        IN  /\ \A i \in 1..n :
                /\ IsPoolAdd(issued[i]) =>
                       /\ i > 1 /\ IsPoolInfo(issued[i - 1])
                       /\ issued[i - 1].rc = "nonzero"
                       /\ issued[i].cmd[3] = a.vg_tpool[2]
                /\ (IsPoolInfo(issued[i]) /\ i < n) =>
                       /\ issued[i].rc # "exception"
                       /\ IsPoolAdd(issued[i + 1]) <=> (issued[i].rc = "nonzero")
                       /\ IsDefaultPool(issued[i + 1]) <=> (issued[i].rc = "ok")
                /\ (IsPoolInfo(issued[i]) /\ i = n /\ pc = "done") => FALSE
                /\ (IsPoolAdd(issued[i]) /\ i < n) =>
                       issued[i].rc = "ok" /\ IsDefaultPool(issued[i + 1])
                /\ IsPoolInfo(issued[i]) => issued[i].cmd[3] = a.vg_tpool[2]
                /\ IsDefaultPool(issued[i]) => issued[i].cmd[3] = a.vg_tpool[2]
                /\ IsLvcreate(issued[i]) =>
                       /\ i = 1 /\ a.create_default_tpool
                       /\ (issued[i].rc # "ok" => n = 1 /\ pc = "raised")
            /\ (pc = "done" /\ a.vg_tpool # NoneTuple) =>
                   /\ IsDefaultPool(issued[n]) /\ issued[n].rc = "ok"
                   /\ \E i \in 1..n : IsPoolInfo(issued[i])
            /\ (a.create_default_tpool /\ a.vg_tpool # NoneTuple /\ n >= 1) =>
                   IsLvcreate(issued[1])
            /\ (a.create_default_tpool /\ a.vg_tpool = NoneTuple) =>
                   /\ n = 0
                   /\ pc \in {"start", "raised"}

\* the pool was created, found missing, registered and made the default
C12_Witness ==
    /\ IsPoolTask /\ pc = "done"
    /\ Len(issued) = 4
    /\ IsLvcreate(issued[1]) /\ IsPoolInfo(issued[2]) /\ issued[2].rc = "nonzero"
    /\ IsPoolAdd(issued[3]) /\ IsDefaultPool(issued[4])

\* =========================================================================
\* The pool that DefaultPoolTask creates (specification Spec)
\* =========================================================================
\* the constructor calls install_with_tasks made for DefaultPoolTask
DefaultPoolCalls ==
    {result.calls[i] : i \in {j \in 1..Len(result.calls) :
                                  result.calls[j].cls = "DefaultPoolTask"}}

\* the name after --thinpool in an lvcreate command
ThinPoolOf(command) == command[5]

\* C13: whenever install_with_tasks hands create_default_tpool = True to
\* DefaultPoolTask, the thin pool that the task's lvcreate command names is
\* 'vm-pool', however the settings were reached (detected defaults or
\* property writes).
C13_CreatedPoolIsVmPool ==
    (result.called /\ ~result.skip) =>
        \A call \in DefaultPoolCalls :
            (call.kwargs.create_default_tpool
             /\ call.kwargs.vg_tpool # NoneTuple) =>
                ThinPoolOf(lvcreate(call.kwargs.vg_tpool)) = "vm-pool"

\* the same for a service nobody wrote to: the detected defaults alone
CreatedPoolIsVmPoolByDefault ==
    (result.called /\ ~result.skip /\ result.settings = ServiceInit(env)) =>
        \A call \in DefaultPoolCalls :
            call.kwargs.create_default_tpool =>
                ThinPoolOf(lvcreate(call.kwargs.vg_tpool)) = "vm-pool"

\* a pool creation was requested with the detected defaults
CreatedPoolByDefaultSeen ==
    /\ result.called /\ ~result.skip /\ result.settings = ServiceInit(env)
    /\ \E call \in DefaultPoolCalls : call.kwargs.create_default_tpool

\* =========================================================================
\* Properties of get_default_tpool (specification SpecTpool)
\* =========================================================================
\* get_default_tpool went past line 213 and read the name of a thin pool
DecodedTpool ==
    /\ tp.called /\ dm.tpool
    /\ dm.dmsetup = "ok" /\ dm.target_type \in {"thin", "linear"}

\* lines 219-225 gave back the volume group and the thin pool of the name
RoundTrip ==
    /\ tp.raised = "none"
    /\ tp.volume_group = dm.vg
    /\ tp.thin_pool = dm.lv

\* C14 as stated: for every volume group name and thin pool name built from
\* letters, digits and hyphens, decoding '<vg with each - doubled>-<pool with
\* each - doubled>-tpool' yields exactly the original pair (before root-pool
\* is replaced by vm-pool).
C14_DecodeUndoesEscaping ==
    DecodedTpool => RoundTrip

\* C14, amended: the same for every volume group name and every thin pool
\* name that does not begin with a hyphen.
C14_DecodeUndoesEscapingOfLvmNames ==
    (DecodedTpool /\ Head(dm.lv) # "-") => RoundTrip

\* a volume group and a thin pool whose names both hold hyphens, the volume
\* group's at its end, were decoded
C14_Witness ==
    /\ DecodedTpool
    /\ dm.vg = <<"a", "-">> /\ dm.lv = <<"1", "-">>
    /\ tp.volume_group = <<"a", "-">> /\ tp.thin_pool = <<"1", "-">>

\* the names are ones LVM accepts: the volume's does not begin with a hyphen
LvmNames == Head(dm.lv) # "-"

OtherPoolReturned ==
    /\ tp.called /\ dm.tpool /\ dm.lv = <<"pool00">> /\ dm.lvs = "fails"
    /\ tp.value = <<dm.vg, <<"pool00">>, FALSE>>

\* =========================================================================
\* Whonix without its templates (specification Spec)
\* =========================================================================
\* the constructor calls install_with_tasks made for ConfigureDefaultQubesTask
ConfigureDefaultQubesCalls ==
    {result.calls[i] : i \in {j \in 1..Len(result.calls) :
                                  result.calls[j].cls = "ConfigureDefaultQubesTask"}}

WhonixStates == {S("qvm.sys-whonix"), S("qvm.anon-whonix")}

\* the states a task made from these constructor arguments would enable,
\* whatever value the parameter disp_preload is given
StatesOfCall(kwargs) ==
    UNION {Range(ConfigureDefaultQubesTask_states(kwargs @@ [disp_preload |-> b])) :
               b \in BOOLEAN}

\* C16: if the Whonix templates are not available then, whatever whonix_vms
\* was set to, install_with_tasks leaves whonix_vms false, and neither the
\* arguments it hands to ConfigureDefaultQubesTask nor any task it returns
\* enable qvm.sys-whonix or qvm.anon-whonix.
C16_NoWhonixWithoutTemplates ==
    (result.called /\ ~whonix_available(env)) =>
        /\ result.whonix_vms = FALSE
        /\ \A call \in ConfigureDefaultQubesCalls :
               StatesOfCall(call.kwargs) \cap WhonixStates = {}
        /\ \A i \in 1..Len(result.tasks) :
               result.tasks[i].cls = "ConfigureDefaultQubesTask" =>
                   Range(ConfigureDefaultQubesTask_states(result.tasks[i].args))
                       \cap WhonixStates = {}

\* whonix_vms had been set on a machine without the Whonix templates,
\* install_with_tasks reset it and called ConfigureDefaultQubesTask
C16_Witness ==
    /\ result.called /\ ~result.skip /\ ~whonix_available(env)
    /\ result.settings.whonix_vms
    /\ result.whonix_vms = FALSE /\ svc.whonix_vms = FALSE
    /\ \E call \in ConfigureDefaultQubesCalls : call.kwargs.whonix_vms = FALSE

====
